---- MODULE Spec2Model ----
(***************************************************************************)
(* Queue manager (gradio_demo/queue_manager) and progress capture         *)
(* (gradio_demo/progress_capture) of the MultiTalk Gradio demo.            *)
(*                                                                         *)
(* Representation                                                          *)
(*   Optional[T]   a sequence: <<>> is None, <<v>> is the value v          *)
(*   datetime      seconds on the model clock `now`                        *)
(*   progress      hundredths (1.0 is 100, 0.3 is 30)                      *)
(*   durations and running averages (Python floats): exact decimals, kept  *)
(*                 as integers in units of 1/Scale second                  *)
(*   job ids       uuid4()[:8] is taken to return an id never returned     *)
(*                 before, and ids are numbered in the order of admission; *)
(*                 only SpecAnyId lets it return any id                    *)
(*   str           a sequence of characters, each a one-character string   *)
(*   stream object [base, wrappers]: base is the stream the interpreter    *)
(*                 started with ("stdout" or "stderr"), wrappers the       *)
(*                 numbers of the captures whose CaptureStream objects are *)
(*                 around it, innermost first                              *)
(* Every method of QueueManager changes the state inside one               *)
(* `with self.lock` block, so each method is one atomic action.            *)
(***************************************************************************)
EXTENDS Integers, Sequences, FiniteSets, TLC

VARIABLES
    jobs,                  \* QueueManager.jobs: job_id -> JobInfo
    queue_order,           \* QueueManager.queue_order
    active_job,            \* QueueManager.active_job (Optional[str])
    job_history,           \* QueueManager.job_history
    avg_processing_times,  \* QueueManager.avg_processing_times
    now,                   \* datetime.now(), in seconds
    uuid_issued,           \* how many ids uuid4 has handed out
    last_call,             \* the last call made on the manager or on the status views: method, job_id argument, result
    log_lines,             \* LogCapture.log_lines
    lines_written,         \* how many lines the task has written so far
    sys_stdout,            \* sys.stdout
    sys_stderr,            \* sys.stderr
    captures,              \* the ProgressStreamCapture objects, in order of creation
    active_job_id,         \* EnhancedProgressTracker.active_job_id (Optional[str])
    current_progress,      \* TqdmCapture.current_progress
    captured_output,       \* TqdmCapture.captured_output
    tqdm_callbacks,        \* TqdmCapture.callbacks, in order of registration
    log_callbacks,         \* LogCapture.callbacks, in order of registration
    notified,              \* the callbacks invoked by the last write or capture call, in order
    call_raised,           \* the exception the last write or capture call raised to its caller
    generate_calls,        \* the calls of MultiTalkPipeline.generate, in order: job_id, position, result
    lock,                  \* QueueManager.lock: the thread that holds it, or None
    threads,               \* the call of a QueueManager method each thread makes, and where it stands
    snapshot,              \* the last result of get_queue_status
    capture_locks          \* TqdmCapture.lock and LogCapture.lock: the thread that holds each, or None

qvars == <<jobs, queue_order, active_job, job_history, avg_processing_times>>
pvars == <<generate_calls>>
lvars == <<lock, threads, snapshot, capture_locks>>
nvars == <<log_callbacks, notified, call_raised, pvars, lvars>>
tvars == <<log_lines, lines_written, sys_stdout, sys_stderr, captures,
           active_job_id, current_progress, captured_output, tqdm_callbacks,
           log_callbacks, notified, call_raised>>
cvars == <<log_lines, lines_written, sys_stdout, sys_stderr, captures,
           active_job_id, current_progress, captured_output, tqdm_callbacks, nvars>>
vars == <<jobs, queue_order, active_job, job_history, avg_processing_times,
          now, uuid_issued, last_call,
          log_lines, lines_written, sys_stdout, sys_stderr, captures,
          active_job_id, current_progress, captured_output, tqdm_callbacks, nvars>>

----------------------------------------------------------------------------
(* Bounds of the model *)

MaxJobs == 2          \* jobs admitted in one run of Spec and SpecSerial
MaxQueued == 3        \* jobs admitted in one run of SpecAdmitStart
MaxTimed == 1         \* jobs admitted in one run of SpecAvg
MaxTicks == 1         \* steps of the clock in one run
MaxLogLines == 102    \* lines logged in one run of SpecLog
MaxRetired == 102     \* jobs admitted in one run of SpecHistory
MaxListed == 8        \* jobs admitted in one run of SpecStatus
MaxTracked == 1       \* jobs admitted in one run of SpecTrack
MaxWrites == 2        \* writes of the task in one run of SpecTrack
MaxUpdates == 101     \* calls of update_progress in one run of SpecOutput
MaxTrackings == 2     \* jobs admitted and tracked in one run of SpecTracking or SpecBlocks
MaxReads == 1         \* calls of get_job_progress_info in one run of SpecTracking
MaxCallbacks == 2     \* callables registered on each capture in one run of SpecCallbacks
MaxCalls == 2         \* calls of update_progress and add_log_line in one run of SpecCallbacks
MaxThreads == 3       \* threads that call the manager in one run of SpecLock, one call each
MaxGenerate == 1      \* calls of generate in one run of SpecGenerate, which may overlap
MaxTaskWrites == 1    \* writes of the generation task in one run of SpecGenerate

(* Program constants *)

HISTORY_CAP == 100    \* "Keep last 100 jobs"
MAX_LINES == 100      \* LogCapture(max_lines=100)

----------------------------------------------------------------------------
(* Inputs *)

\* job_type: the two kinds the pipeline knows and one it does not
JobTypes == {"single", "multi", "other"}
\* seconds the clock advances in one step
TickSteps == {100}
\* (progress, current_step) of an update
STEP_GENERATING == <<"G", "e", "n", "e", "r", "a", "t", "i", "n", "g", " ", "v", "i", "d", "e", "o", " ", "f", "r", "a", "m", "e", "s", ".", ".", ".">>
STEP_COMPLETE == <<"V", "i", "d", "e", "o", " ", "g", "e", "n", "e", "r", "a", "t", "i", "o", "n", " ", "c", "o", "m", "p", "l", "e", "t", "e", "!">>
STEP_INIT == <<"I", "n", "i", "t", "i", "a", "l", "i", "z", "i", "n", "g", " ", "g", "e", "n", "e", "r", "a", "t", "i", "o", "n", ".", ".", ".">>
STEP_AUDIO == <<"P", "r", "o", "c", "e", "s", "s", "i", "n", "g", " ", "a", "u", "d", "i", "o", " ", "e", "m", "b", "e", "d", "d", "i", "n", "g", "s", ".", ".", ".">>
STEP_SAVING == <<"S", "a", "v", "i", "n", "g", " ", "v", "i", "d", "e", "o", " ", "f", "i", "l", "e", ".", ".", ".">>
\* the update_job_progress calls of generate, in order
GenerateUpdates ==
    <<<<10, STEP_INIT>>, <<20, STEP_AUDIO>>, <<30, STEP_GENERATING>>,
      <<80, STEP_SAVING>>, <<100, STEP_COMPLETE>>>>
\* mode of a call of generate
GenerateModes == {"single", "multi"}
\* str(e) of the error that ends a generation: a text, or no text at all
ErrorTexts == {"CUDA out of memory", ""}
ProgressInputs == {<<30, STEP_GENERATING>>, <<100, STEP_COMPLETE>>}
\* (success, error_message) of complete_job, as the pipeline passes them:
\* complete_job(job_id, success=True) and
\* complete_job(job_id, success=False, error_message=str(e))
CompleteInputs == {<<TRUE, <<>> >>, <<FALSE, <<"boom">> >>}
\* texts the task writes to its standard output: a log line, a tqdm bar and a
\* line with a percentage above 100
TEXT_LOG == <<"L", "o", "a", "d", "i", "n", "g", " ", "c", "h", "e", "c", "k", "p", "o", "i", "n", "t", ".", ".", ".", "\n">>
TEXT_TQDM == <<"4", "5", "%", "|", "█", "█", "█", " ", "|", " ", "1", "2", "/", "3", "0", " ", "[", "0", "0", ":", "1", "2", "<", "0", "0", ":", "1", "8", ",", " ", "2", ".", "5", "0", "i", "t", "/", "s", "]">>
TEXT_OVER == <<"s", "p", "e", "e", "d", "u", "p", " ", "1", "5", "0", "%", "\n">>
StdoutTexts == {TEXT_LOG, TEXT_TQDM, TEXT_OVER}
\* texts of blanks only, of two lines, and of a line with the word "step"
TEXT_BLANK == <<" ", " ", "\n">>
TEXT_NONE == <<>>
LINE_OK == <<"m", "o", "d", "e", "l", " ", "o", "k">>
LINE_DONE == <<"d", "o", "n", "e">>
TEXT_TWO == LINE_OK \o <<"\n">> \o LINE_DONE \o <<"\n">>
LINE_STEP_OF == <<"S", "t", "e", "p", " ", "3", " ", "o", "f", " ", "8">>
TEXT_STEP == LINE_STEP_OF \o <<"\n">>
LINE_LOG == <<"L", "o", "a", "d", "i", "n", "g", " ", "c", "h", "e", "c", "k", "p", "o", "i", "n", "t", ".", ".", ".">>
LINE_OVER == SubSeq(TEXT_OVER, 1, Len(TEXT_OVER) - 1)
LineTexts == {TEXT_LOG, TEXT_BLANK, TEXT_NONE, TEXT_TWO, TEXT_TQDM, TEXT_OVER, TEXT_STEP}
\* the lines of each text that are not empty, in order
LinesOf(text) ==
    IF text = TEXT_LOG THEN <<LINE_LOG>>
    ELSE IF text = TEXT_TWO THEN <<LINE_OK, LINE_DONE>>
    ELSE IF text = TEXT_TQDM THEN <<TEXT_TQDM>>
    ELSE IF text = TEXT_OVER THEN <<LINE_OVER>>
    ELSE IF text = TEXT_STEP THEN <<LINE_STEP_OF>>
    ELSE <<>>
\* what the generation task writes to its standard output
TaskTexts == {TEXT_TQDM, TEXT_LOG}
\* lines handed to update_progress: a bare percentage, and a line with an
\* indicator that neither pattern matches
LINE_PCT == <<"7", "%">>
LINE_STEP == <<"s", "t", "e", "p", " ", "3">>
ProgressLines == {LINE_PCT, LINE_STEP}
\* lines handed to add_log_line
LINE_WARN == <<"w", "a", "r", "n">>
LogLines == {LINE_WARN}
\* texts the task writes to its standard error
TEXT_WARN == <<"w", "a", "r", "n", "\n">>
StderrTexts == {TEXT_WARN}
\* exc_type of __exit__: None when the block returns
ExcTypes == {<<>>, <<"RuntimeError">>}
\* max_age_hours of cleanup_old_jobs
MaxAgeHours == {0, 24}
\* max_age_hours and clock steps of SpecPurge: the cutoff falls between, on and
\* after the completion times
PurgeAges == {0, 1}
HourSteps == {3600}

RECURSIVE Pow10(_)
Pow10(n) == IF n = 0 THEN 1 ELSE 10 * Pow10(n - 1)

\* One running-average update adds at most one decimal digit and a run makes
\* at most one update per admitted job, so 1/Scale second represents every
\* value exactly.
Scale == Pow10(IF MaxJobs > MaxTimed THEN MaxJobs ELSE MaxTimed)

None == <<>>
Some(v) == <<v>>

\* the element of a set of one element; Only({e : name \in {v}}) is e with
\* the local name bound to v, which is computed once as an assignment does
Only(S) == CHOOSE r \in S : TRUE

----------------------------------------------------------------------------
(* Python float helpers *)

\* A float that is a quotient (elapsed / progress, a parsed decimal) is kept
\* as a fraction num / den with den > 0.
Rat(n, d) == [num |-> n, den |-> d]
RatAdd(a, b) == Rat(a.num * b.den + b.num * a.den, a.den * b.den)
RatSub(a, b) == Rat(a.num * b.den - b.num * a.den, a.den * b.den)
RatEq(a, b) == a.num * b.den = b.num * a.den
\* max(0, a)
RatMax0(a) == IF a.num < 0 THEN Rat(0, 1) ELSE a

----------------------------------------------------------------------------
(* Python list and dict helpers *)

\* x in list
Contains(s, x) == \E i \in 1..Len(s) : s[i] = x

\* list.index(x) + 1, or 0 where list.index raises ValueError
IndexOf(s, x) ==
    IF Contains(s, x) THEN CHOOSE i \in 1..Len(s) : s[i] = x /\ \A k \in 1..(i - 1) : s[k] # x
    ELSE 0

\* a removal that fills the hole with the last element
ListRemove_SwapLast(s, x) ==
    LET i == IndexOf(s, x)
    IN  IF i = 0 THEN s
        ELSE IF i = Len(s) THEN SubSeq(s, 1, Len(s) - 1)
        ELSE [k \in 1..(Len(s) - 1) |-> IF k = i THEN s[Len(s)] ELSE s[k]]

\* list.remove(x): drops the first occurrence of x
ListRemove(s, x) ==
    LET i == IndexOf(s, x)
    IN  IF i = 0 THEN s ELSE SubSeq(s, 1, i - 1) \o SubSeq(s, i + 1, Len(s))

\* del d[k]
DictDel(d, k) == [x \in (DOMAIN d) \ {k} |-> d[x]]

\* d[k] = v
DictSet(d, k, v) == [x \in (DOMAIN d) \cup {k} |-> IF x = k THEN v ELSE d[x]]

\* bool(error_message): None and "" are falsy
Truthy(e) == e # None /\ e[1] # ""

----------------------------------------------------------------------------
(* QueueManager.__init__, EnhancedProgressTracker.__init__ *)

DefaultAvgProcessingTimes == [single |-> 120 * Scale, multi |-> 180 * Scale]

\* dataclass ProgressInfo; rate is never set by the parser
ProgressInfo(percentage, current_step, total_steps, eta, description, elapsed_time) ==
    [percentage |-> percentage, current_step |-> current_step,
     total_steps |-> total_steps, rate |-> None, eta |-> eta,
     description |-> description, elapsed_time |-> elapsed_time]

\* ProgressInfo()
DefaultProgressInfo == ProgressInfo(0, 0, 0, None, <<>>, Rat(0, 1))

Init ==
    /\ jobs = <<>>
    /\ queue_order = <<>>
    /\ active_job = None
    /\ job_history = <<>>
    /\ avg_processing_times = DefaultAvgProcessingTimes
    /\ now = 0
    /\ uuid_issued = 0
    /\ last_call = [op |-> "__init__", job_id |-> None, ret |-> None]
    /\ log_lines = <<>>
    /\ lines_written = 0
    /\ sys_stdout = [base |-> "stdout", wrappers |-> <<>>]
    /\ sys_stderr = [base |-> "stderr", wrappers |-> <<>>]
    /\ captures = <<>>
    /\ active_job_id = None
    /\ current_progress = DefaultProgressInfo
    /\ captured_output = <<>>
    /\ tqdm_callbacks = <<>>
    /\ log_callbacks = <<>>
    /\ notified = <<>>
    /\ call_raised = None
    /\ generate_calls = <<>>
    /\ lock = None
    /\ threads = <<>>
    /\ snapshot = None
    /\ capture_locks = [tqdm |-> None, log |-> None]

----------------------------------------------------------------------------
(* QueueManager.add_job *)

\* str(uuid.uuid4())[:8] when the draw is an id never drawn before
NewJobId == uuid_issued + 1

\* user_session defaults to f"session_{int(time.time())}"
SessionOf(user_session, t) ==
    IF user_session = None THEN <<"session", t>> ELSE user_session[1]

\* an estimate that ignores the running averages
EstimatedDuration_Flat(avg, job_type) == 150 * Scale

\* self.avg_processing_times.get(job_type, 150.0)
EstimatedDuration(avg, job_type) ==
    IF job_type \in DOMAIN avg THEN avg[job_type] ELSE 150 * Scale

\* JobInfo(job_id=..., status="queued", created_at=datetime.now(), ...)
JobInfo(job_id, user_session, job_type, t, avg) ==
    [job_id             |-> job_id,
     user_session       |-> SessionOf(user_session, t),
     job_type           |-> job_type,
     status             |-> "queued",
     created_at         |-> t,
     started_at         |-> None,
     completed_at       |-> None,
     progress           |-> 0,
     current_step       |-> <<>>,
     estimated_duration |-> Some(EstimatedDuration(avg, job_type)),
     error_message      |-> None]

\* add_job when uuid4()[:8] gives job_id
add_job_drawing(job_id, job_type, user_session) ==
    /\ LET job == JobInfo(job_id, user_session, job_type, now, avg_processing_times)
       IN  /\ jobs' = DictSet(jobs, job_id, job)
           /\ queue_order' = Append(queue_order, job_id)
           /\ uuid_issued' = uuid_issued + 1
           /\ last_call' = [op |-> "add_job", job_id |-> None, ret |-> Some(job_id)]
    /\ UNCHANGED <<active_job, job_history, avg_processing_times, now>>

add_job(job_type, user_session) == add_job_drawing(NewJobId, job_type, user_session)

----------------------------------------------------------------------------
(* QueueManager.start_job *)

\* job.status = "processing"; job.started_at = datetime.now()
StartedJob(job, t) ==
    [job EXCEPT !.status = "processing", !.started_at = Some(t)]

\* a start that leaves the marker as it was
ActiveAfterStart_Forget(active, job_id) == active

\* self.active_job = job_id
ActiveAfterStart(active, job_id) == Some(job_id)

\* a start that leaves the id in the queue order
QueueAfterStart_Keep(order, job_id) == order

\* if job_id in self.queue_order: self.queue_order.remove(job_id)
QueueAfterStart(order, job_id) ==
    IF Contains(order, job_id) THEN ListRemove(order, job_id) ELSE order

start_job(job_id) ==
    IF job_id \notin DOMAIN jobs
    THEN /\ last_call' = [op |-> "start_job", job_id |-> Some(job_id), ret |-> Some(FALSE)]
         /\ UNCHANGED <<qvars, now, uuid_issued>>
    ELSE /\ jobs' = DictSet(jobs, job_id, StartedJob(jobs[job_id], now))
         /\ active_job' = ActiveAfterStart(active_job, job_id)
         /\ queue_order' = QueueAfterStart(queue_order, job_id)
         /\ last_call' = [op |-> "start_job", job_id |-> Some(job_id), ret |-> Some(TRUE)]
         /\ UNCHANGED <<job_history, avg_processing_times, now, uuid_issued>>

----------------------------------------------------------------------------
(* QueueManager.update_job_progress *)

\* an update that creates the record it does not find (a defaultdict store)
UpdatedJobs_Create(js, job_id, progress, current_step) ==
    LET found == IF job_id \in DOMAIN js THEN js[job_id]
                 ELSE JobInfo(job_id, None, "single", 0, DefaultAvgProcessingTimes)
    IN  DictSet(js, job_id, [found EXCEPT !.progress = progress,
                                           !.current_step = current_step])

\* self.jobs[job_id].progress = progress; .current_step = current_step
UpdatedJobs(js, job_id, progress, current_step) ==
    IF job_id \in DOMAIN js
    THEN [js EXCEPT ![job_id].progress = progress,
                    ![job_id].current_step = current_step]
    ELSE js

update_job_progress(job_id, progress, current_step) ==
    /\ jobs' = UpdatedJobs(jobs, job_id, progress, current_step)
    /\ last_call' = [op |-> "update_job_progress", job_id |-> Some(job_id),
                     ret |-> None]
    /\ UNCHANGED <<queue_order, active_job, job_history, avg_processing_times,
                   now, uuid_issued>>

----------------------------------------------------------------------------
(* QueueManager.complete_job *)

\* a completion that leaves progress alone on success too
CompletedJob_KeepProgress(job, success, error_message, t) ==
    [job EXCEPT !.status = IF success THEN "completed" ELSE "failed",
                !.completed_at = Some(t),
                !.error_message = IF Truthy(error_message) THEN error_message ELSE @]

\* status, completed_at, progress and error_message of the finished job
CompletedJob(job, success, error_message, t) ==
    [job EXCEPT !.status = IF success THEN "completed" ELSE "failed",
                !.completed_at = Some(t),
                !.progress = IF success THEN 100 ELSE @,
                !.error_message = IF Truthy(error_message) THEN error_message ELSE @]

\* the moving average with its two weights swapped
UpdateAvgProcessingTime_Swapped(avg, job_type, duration) ==
    IF job_type \in DOMAIN avg
    THEN [avg EXCEPT ![job_type] = (3 * @ + 7 * duration * Scale) \div 10]
    ELSE avg

\* QueueManager._update_avg_processing_time: 0.7 * current_avg + 0.3 * duration
\* (avg in 1/Scale s, duration in s)
UpdateAvgProcessingTime(avg, job_type, duration) ==
    IF job_type \in DOMAIN avg
    THEN [avg EXCEPT ![job_type] = (7 * @ + 3 * duration * Scale) \div 10]
    ELSE avg

\* if success and job.started_at: duration = completed_at - started_at; update
AvgAfterComplete(avg, job, success) ==
    IF success /\ job.started_at # None
    THEN UpdateAvgProcessingTime(avg, job.job_type,
                                 job.completed_at[1] - job.started_at[1])
    ELSE avg

\* a history that refuses the new record when it is full
HistoryAppend_KeepOldest(history, job) ==
    IF Len(history) >= HISTORY_CAP THEN history ELSE Append(history, job)

\* self.job_history.append(job); if len > 100: pop(0)
HistoryAppend(history, job) ==
    LET appended == Append(history, job)
    IN  IF Len(appended) > HISTORY_CAP THEN Tail(appended) ELSE appended

\* a completion that never clears the marker
ActiveAfterComplete_Keep(active, job_id) == active

\* if self.active_job == job_id: self.active_job = None
ActiveAfterComplete(active, job_id) ==
    IF active = Some(job_id) THEN None ELSE active

\* a completion that leaves the record in the live store
JobsAfterComplete_Keep(js, job_id) == js

\* del self.jobs[job_id]
JobsAfterComplete(js, job_id) == DictDel(js, job_id)

complete_job(job_id, success, error_message) ==
    /\ last_call' = [op |-> "complete_job", job_id |-> Some(job_id), ret |-> None]
    /\ IF job_id \notin DOMAIN jobs
       THEN UNCHANGED <<qvars, now, uuid_issued>>
       ELSE LET job == CompletedJob(jobs[job_id], success, error_message, now)
            IN  /\ avg_processing_times' =
                       AvgAfterComplete(avg_processing_times, job, success)
                /\ job_history' = HistoryAppend(job_history, job)
                /\ active_job' = ActiveAfterComplete(active_job, job_id)
                /\ jobs' = JobsAfterComplete(jobs, job_id)
                /\ UNCHANGED <<queue_order, now, uuid_issued>>

----------------------------------------------------------------------------
(* QueueManager.cleanup_old_jobs *)

\* datetime.now() - timedelta(hours=max_age_hours)
CutoffTime(t, max_age_hours) == t - max_age_hours * 3600

\* a purge that also keeps the records completed at the cutoff
KeptHistory_AtCutoff(history, cutoff_time) ==
    LET Keep(job) == job.completed_at # None /\ job.completed_at[1] >= cutoff_time
    IN  SelectSeq(history, Keep)

\* [job for job in self.job_history if job.completed_at and job.completed_at > cutoff_time]
KeptHistory(history, cutoff_time) ==
    LET Keep(job) == job.completed_at # None /\ job.completed_at[1] > cutoff_time
    IN  SelectSeq(history, Keep)

\* job ids of self.jobs created before the cutoff whose status is terminal
StaleJobs(js, cutoff_time) ==
    {job_id \in DOMAIN js :
        /\ js[job_id].created_at < cutoff_time
        /\ js[job_id].status \in {"completed", "failed"}}

\* for job_id in stale_jobs: if job_id in self.queue_order: remove(job_id)
RECURSIVE RemoveEach(_, _)
RemoveEach(order, ids) ==
    IF ids = {} THEN order
    ELSE LET job_id == CHOOSE x \in ids : TRUE
         IN  RemoveEach(ListRemove(order, job_id), ids \ {job_id})

cleanup_old_jobs(max_age_hours) ==
    LET cutoff_time == CutoffTime(now, max_age_hours)
        stale_jobs == StaleJobs(jobs, cutoff_time)
    IN  /\ job_history' = KeptHistory(job_history, cutoff_time)
        /\ jobs' = [job_id \in (DOMAIN jobs) \ stale_jobs |-> jobs[job_id]]
        /\ queue_order' = RemoveEach(queue_order, stale_jobs)
        /\ last_call' = [op |-> "cleanup_old_jobs", job_id |-> None, ret |-> None]
        /\ UNCHANGED <<active_job, avg_processing_times, now, uuid_issued>>

----------------------------------------------------------------------------
(* Queries *)

\* [self.jobs[job_id] for job_id in self.queue_order if job_id in self.jobs]
queue_jobs ==
    LET Live(job_id) == job_id \in DOMAIN jobs
        live == SelectSeq(queue_order, Live)
    IN  [i \in 1..Len(live) |-> jobs[live[i]]]

\* self.jobs.get(self.active_job) if self.active_job else None
active_job_info ==
    IF active_job # None /\ active_job[1] \in DOMAIN jobs
    THEN Some(jobs[active_job[1]])
    ELSE None

\* job.estimated_duration or 150.0 (None and 0.0 are falsy)
EstimatedOrDefault(job) ==
    IF job.estimated_duration = None \/ job.estimated_duration[1] = 0
    THEN 150 * Scale
    ELSE job.estimated_duration[1]

\* a projection that returns the projected total, not what is left of it
estimate_remaining_time_Total(job, t) ==
    IF job.started_at = None \/ job.progress <= 0
    THEN Rat(EstimatedOrDefault(job), 1)
    ELSE IF job.progress >= 100 THEN Rat(0, 1)
         ELSE Rat((t - job.started_at[1]) * Scale * 100, job.progress)

\* QueueManager._estimate_remaining_time, at time t (progress is in hundredths:
\* elapsed / progress is elapsed * 100 / job.progress)
estimate_remaining_time(job, t) ==
    IF job.started_at = None \/ job.progress <= 0
    THEN Rat(EstimatedOrDefault(job), 1)
    ELSE LET elapsed == (t - job.started_at[1]) * Scale
         IN  IF job.progress >= 100 THEN Rat(0, 1)
             ELSE LET estimated_total == Rat(elapsed * 100, job.progress)
                  IN  RatMax0(RatSub(estimated_total, Rat(elapsed, 1)))

\* the loop of get_queue_status over enumerate(queue_jobs), from index i on
\* (i is 1-based: the code's i == 0 is i = 1 here)
RECURSIVE WaitFrom(_, _, _, _)
WaitFrom(qjobs, i, active_info, t) ==
    IF i > Len(qjobs) THEN Rat(0, 1)
    ELSE LET term == IF i = 1 /\ active_info # None
                     THEN estimate_remaining_time(active_info[1], t)
                     ELSE Rat(EstimatedOrDefault(qjobs[i]), 1)
         IN  RatAdd(term, WaitFrom(qjobs, i + 1, active_info, t))

\* total_estimated_wait of get_queue_status
total_estimated_wait == WaitFrom(queue_jobs, 1, active_job_info, now)

\* a listing without the slice
FirstFive_All(list) == list

\* list[:5]
FirstFive(list) == SubSeq(list, 1, IF Len(list) < 5 THEN Len(list) ELSE 5)

\* QueueManager.get_queue_status
get_queue_status ==
    [queue_length         |-> Len(queue_jobs),
     active_job           |-> active_job_info,
     estimated_wait_time  |-> total_estimated_wait,
     queue_jobs           |-> FirstFive(queue_jobs),
     avg_processing_times |-> avg_processing_times]

\* QueueManager.get_job_position: queue_order.index(job_id) + 1, None on ValueError
get_job_position(job_id) ==
    LET i == IndexOf(queue_order, job_id)
    IN  IF i = 0 THEN None ELSE Some(i)

\* QueueManager.get_job_info
get_job_info(job_id) ==
    IF job_id \in DOMAIN jobs THEN Some(jobs[job_id]) ELSE None

----------------------------------------------------------------------------
(* The clock *)

\* how many steps (of 100 s or of one hour) the clock has made
ClockSteps(t) == (t % 3600) \div 100 + t \div 3600

Tick(d) ==
    /\ ClockSteps(now) < MaxTicks
    /\ now' = now + d
    /\ UNCHANGED <<qvars, uuid_issued, last_call>>

----------------------------------------------------------------------------
(* Python str helpers *)

DigitChars == <<"0", "1", "2", "3", "4", "5", "6", "7", "8", "9">>

RECURSIVE Str(_)
\* str(n) of a natural number
Str(n) == IF n < 10 THEN <<DigitChars[n + 1]>>
          ELSE Append(Str(n \div 10), DigitChars[(n % 10) + 1])

\* a field of strftime: two digits
TwoDigits(n) == <<DigitChars[(n \div 10) + 1], DigitChars[(n % 10) + 1]>>

\* datetime.now().strftime('%H:%M:%S') at time t
StrfTime(t) ==
    TwoDigits((t \div 3600) % 24) \o <<":">> \o TwoDigits((t \div 60) % 60)
        \o <<":">> \o TwoDigits(t % 60)

\* f"[{timestamp}] {line}"
Stamped(t, line) == <<"[">> \o StrfTime(t) \o <<"]", " ">> \o line

\* the characters str.strip() removes and \s matches (the ASCII ones)
Whitespace == {" ", "\t", "\n", "\r", "\f"}

RECURSIVE LStrip(_)
LStrip(s) == IF s # <<>> /\ s[1] \in Whitespace THEN LStrip(Tail(s)) ELSE s

RECURSIVE RStrip(_)
RStrip(s) ==
    IF s # <<>> /\ s[Len(s)] \in Whitespace THEN RStrip(SubSeq(s, 1, Len(s) - 1)) ELSE s

\* s.strip()
Strip(s) == LStrip(RStrip(s))

UpperChars == <<"A", "B", "C", "D", "E", "F", "G", "H", "I", "J", "K", "L", "M", "N", "O", "P", "Q", "R", "S", "T", "U", "V", "W", "X", "Y", "Z">>
LowerChars == <<"a", "b", "c", "d", "e", "f", "g", "h", "i", "j", "k", "l", "m", "n", "o", "p", "q", "r", "s", "t", "u", "v", "w", "x", "y", "z">>

\* s.lower()
Lower(s) ==
    [i \in 1..Len(s) |->
        IF \E k \in 1..26 : UpperChars[k] = s[i]
        THEN LowerChars[CHOOSE k \in 1..26 : UpperChars[k] = s[i]]
        ELSE s[i]]

\* sub in s
HasSub(s, sub) ==
    \E i \in 1..(Len(s) - Len(sub) + 1) : SubSeq(s, i, i + Len(sub) - 1) = sub

\* c in s, for a character c
HasChar(s, c) == \E i \in 1..Len(s) : s[i] = c

RECURSIVE Split(_, _)
\* s.split(sep), for a separator of one character
Split(s, sep) ==
    IF ~HasChar(s, sep) THEN <<s>>
    ELSE LET i == CHOOSE k \in 1..Len(s) :
                      s[k] = sep /\ \A m \in 1..(k - 1) : s[m] # sep
         IN  <<SubSeq(s, 1, i - 1)>> \o Split(SubSeq(s, i + 1, Len(s)), sep)

\* \d (the ASCII digits)
IsDigit(c) == \E d \in 1..10 : DigitChars[d] = c
AllDigits(s) == s # <<>> /\ \A i \in 1..Len(s) : IsDigit(s[i])

RECURSIVE IntOf(_)
\* int(s) of a string of digits
IntOf(s) ==
    IF s = <<>> THEN 0
    ELSE 10 * IntOf(SubSeq(s, 1, Len(s) - 1))
             + (CHOOSE d \in 0..9 : DigitChars[d + 1] = s[Len(s)])

\* the last index of the run of characters of `set` that starts at i
\* (i - 1 when s[i] is not in the set)
RunEnd(s, i, set) ==
    CHOOSE j \in (i - 1)..Len(s) :
        /\ \A m \in i..j : s[m] \in set
        /\ (j < Len(s) => s[j + 1] \notin set)
Digits == {DigitChars[d] : d \in 1..10}

----------------------------------------------------------------------------
(* TqdmCapture: the two patterns and the parser *)

\* the bar characters of tqdm_pattern
BarChars == {"█", "▉", "▊", "▋", "▌", "▍", "▎", "▏", " "}

\* int(s): digits with an optional sign, blanks around them allowed; None is
\* ValueError (underscores between digits are not modelled)
IntParse(s) ==
    LET t == Strip(s)
        signed == t # <<>> /\ t[1] \in {"+", "-"}
        body == IF signed THEN Tail(t) ELSE t
    IN  IF ~AllDigits(body) THEN None
        ELSE IF signed /\ t[1] = "-" THEN Some(0 - IntOf(body))
        ELSE Some(IntOf(body))

\* float(s) of a decimal numeral: digits, optionally a point and more digits,
\* optionally a sign; None is ValueError (exponents, inf and nan are not
\* modelled)
FloatParse(s) ==
    LET t == Strip(s)
        signed == t # <<>> /\ t[1] \in {"+", "-"}
        body == IF signed THEN Tail(t) ELSE t
        parts == Split(body, ".")
        whole == parts[1]
        frac == IF Len(parts) = 2 THEN parts[2] ELSE <<>>
        ok == /\ Len(parts) <= 2
              /\ whole \o frac # <<>>
              /\ \A i \in 1..Len(whole) : IsDigit(whole[i])
              /\ \A i \in 1..Len(frac) : IsDigit(frac[i])
        value == Rat(IntOf(whole \o frac), Pow10(Len(frac)))
    IN  IF ~ok THEN None
        ELSE IF signed /\ t[1] = "-" THEN Some(Rat(0 - value.num, value.den))
        ELSE Some(value)

\* time_str.rstrip('s')
RECURSIVE RStripS(_)
RStripS(t) == IF t # <<>> /\ t[Len(t)] = "s" THEN RStripS(SubSeq(t, 1, Len(t) - 1)) ELSE t

\* a conversion that reads the last field only
parse_time_LastField(time_str) ==
    LET parts == Split(time_str, ":")
        last == IntParse(parts[Len(parts)])
    IN  IF last = None THEN Rat(0, 1) ELSE Rat(last[1], 1)

\* TqdmCapture._parse_time; every exception gives 0.0
parse_time(time_str) ==
    LET parts == Split(time_str, ":")
        ints == [i \in 1..Len(parts) |-> IntParse(parts[i])]
        asFloat == FloatParse(RStripS(time_str))
    IN  IF HasChar(time_str, ":") /\ Len(parts) \in {2, 3}
        THEN IF \E i \in 1..Len(parts) : ints[i] = None THEN Rat(0, 1)
             ELSE IF Len(parts) = 2 THEN Rat(ints[1][1] * 60 + ints[2][1], 1)
             ELSE Rat(ints[1][1] * 3600 + ints[2][1] * 60 + ints[3][1], 1)
        ELSE IF asFloat = None THEN Rat(0, 1) ELSE asFloat[1]

\* the part of tqdm_pattern between the brackets, for a "[" at index b:
\* ([^\]]+)<([^\]]+),\s*([^\]]+)\] ends at the first "]" after b; the first group
\* takes the last "<" and the second the last "," that leave a match
TqdmBracketMatch(s, b) ==
    IF ~\E e \in (b + 1)..Len(s) : s[e] = "]" THEN None
    ELSE LET e == CHOOSE x \in (b + 1)..Len(s) :
                      s[x] = "]" /\ \A m \in (b + 1)..(x - 1) : s[m] # "]"
             Commas(p) == {q \in (p + 2)..(e - 2) : s[q] = ","}
             Lts == {p \in (b + 2)..(e - 4) : s[p] = "<" /\ Commas(p) # {}}
         IN  IF Lts = {} THEN None
             ELSE LET p == CHOOSE x \in Lts : \A y \in Lts : y <= x
                      q == CHOOSE x \in Commas(p) : \A y \in Commas(p) : y <= x
                      ws == RunEnd(s, q + 1, Whitespace)
                      r == IF ws >= e - 1 THEN e - 1 ELSE ws + 1
                  IN  Some([elapsed |-> SubSeq(s, b + 1, p - 1),
                            eta     |-> SubSeq(s, p + 1, q - 1),
                            rate    |-> SubSeq(s, r, e - 1)])

\* tqdm_pattern matched at index i of s: None, or the six groups
TqdmMatchAt(s, i) ==
    LET j == RunEnd(s, i, Digits)
    IN  IF j < i \/ j + 2 > Len(s) THEN None
        ELSE IF s[j + 1] # "%" \/ s[j + 2] # "|" THEN None
        ELSE
        LET k == RunEnd(s, j + 3, BarChars)
        IN  IF k + 1 > Len(s) THEN None
            ELSE IF s[k + 1] # "|" THEN None
            ELSE
            LET c1 == RunEnd(s, k + 2, Whitespace) + 1
                c2 == RunEnd(s, c1, Digits)
            IN  IF c2 < c1 \/ c2 + 1 > Len(s) THEN None
                ELSE IF s[c2 + 1] # "/" THEN None
                ELSE
                LET t1 == c2 + 2
                    t2 == RunEnd(s, t1, Digits)
                    b == RunEnd(s, t2 + 1, Whitespace) + 1
                IN  IF t2 < t1 \/ b > Len(s) THEN None
                    ELSE IF s[b] # "[" THEN None
                    ELSE
                    LET inside == TqdmBracketMatch(s, b)
                    IN  IF inside = None THEN None
                        ELSE Some([percentage |-> SubSeq(s, i, j),
                                   current    |-> SubSeq(s, c1, c2),
                                   total      |-> SubSeq(s, t1, t2),
                                   elapsed    |-> inside[1].elapsed,
                                   eta        |-> inside[1].eta,
                                   rate       |-> inside[1].rate])

\* tqdm_pattern.search(s): the leftmost match
TqdmSearch(s) ==
    Only({IF starts = {} THEN None
          ELSE TqdmMatchAt(s, CHOOSE i \in starts : \A k \in starts : i <= k)
          : starts \in {{i \in 1..Len(s) : TqdmMatchAt(s, i) # None}}})

\* a pattern that takes the first digit only
SimpleSearch_FirstDigit(s) ==
    LET starts == {i \in 1..Len(s) : IsDigit(s[i])}
    IN  IF starts = {} THEN None
        ELSE LET i == CHOOSE x \in starts : \A k \in starts : x <= k
             IN  Some(SubSeq(s, i, i))

\* simple_progress_pattern.search(s), (\d+)%: the first run of digits that a
\* "%" follows; None, or group 1
SimpleSearch(s) ==
    LET Ends(i) == RunEnd(s, i, Digits)
        starts == {i \in 1..Len(s) :
                       /\ Ends(i) >= i
                       /\ Ends(i) < Len(s)
                       /\ s[Ends(i) + 1] = "%"}
    IN  IF starts = {} THEN None
        ELSE LET i == CHOOSE x \in starts : \A k \in starts : x <= k
             IN  Some(SubSeq(s, i, Ends(i)))

\* TqdmCapture.parse_tqdm_line: None, or the ProgressInfo
parse_tqdm_line(raw) ==
    Only({IF line = <<>> THEN None
          ELSE Only({IF full # None
                     THEN Some(ProgressInfo(IntOf(full[1].percentage),
                                            IntOf(full[1].current),
                                            IntOf(full[1].total), Some(full[1].eta),
                                            line, parse_time(full[1].elapsed)))
                     ELSE Only({IF simple # None
                                THEN Some(ProgressInfo(IntOf(simple[1]), 0, 0, None,
                                                       line, Rat(0, 1)))
                                ELSE None
                                : simple \in {SimpleSearch(line)}})
                     : full \in {TqdmSearch(line)}})
          : line \in {Strip(raw)}})

----------------------------------------------------------------------------
(* What a write to a captured stream can change: the fields of the queue   *)
(* manager and of the two captures that the callbacks and processors touch *)

Captured ==
    [jobs |-> jobs, last_call |-> last_call, log_lines |-> log_lines,
     current_progress |-> current_progress, captured_output |-> captured_output,
     log_callbacks |-> log_callbacks, notified |-> <<>>, exc |-> None]

\* the state after a call that left cs; cs.exc is what the call raised
Assigned(cs) ==
    /\ jobs' = cs.jobs
    /\ last_call' = cs.last_call
    /\ log_lines' = cs.log_lines
    /\ current_progress' = cs.current_progress
    /\ captured_output' = cs.captured_output
    /\ notified' = cs.notified
    /\ call_raised' = cs.exc

\* update_queue_progress, the closure of start_job_tracking over job_id:
\* queue_manager.update_job_progress(job_id, percentage / 100.0, description)
\* (a progress of percentage / 100.0 is `percentage` hundredths)
update_queue_progress(cs, job_id, progress_info) ==
    [cs EXCEPT !.jobs = UpdatedJobs(@, job_id, progress_info.percentage,
                                    progress_info.description),
               !.last_call = [op |-> "update_job_progress", job_id |-> Some(job_id),
                              ret |-> None]]

\* the callback start_job_tracking registers for job_id
QueueProgressCallback(job_id) == [fn |-> "update_queue_progress", job_id |-> job_id]

\* a callable registered through add_callback: it returns, or it raises an
\* Exception
Callable(raises) == [fn |-> "callable", raises |-> raises]

Raises(callback) == callback.fn = "callable" /\ callback.raises

\* callback(item), for the callback at index i of the list `which` ("tqdm" or
\* "log"): the invocation is noted with what the capture holds at that moment
Invoke(cs, which, i, callback, item) ==
    LET seen == [cs EXCEPT !.notified =
                     Append(@, [callbacks |-> which, index |-> i, item |-> item,
                                stored |-> IF which = "tqdm"
                                           THEN cs.current_progress = item
                                           ELSE Contains(cs.log_lines, item)])]
        done == IF callback.fn = "update_queue_progress"
                THEN update_queue_progress(seen, callback.job_id, item)
                ELSE seen
    IN  [done EXCEPT !.exc = IF Raises(callback) THEN Some("Exception") ELSE None]

\* a handler that lets the error go on
ExceptLogged_Reraise(cs) == cs

\* except Exception as e: logger.error(...)
ExceptLogged(cs) == [cs EXCEPT !.exc = None]

RECURSIVE NotifyFrom(_, _, _, _)
\* for callback in self.callbacks: try: callback(progress_info) except ...,
\* from index i on
NotifyFrom(cs, callbacks, i, progress_info) ==
    IF i > Len(callbacks) \/ cs.exc # None THEN cs
    ELSE NotifyFrom(ExceptLogged(Invoke(cs, "tqdm", i, callbacks[i], progress_info)),
                    callbacks, i + 1, progress_info)

\* TqdmCapture.update_progress at time t
update_progress(cs, line, t, callbacks) ==
    Only({IF progress_info = None THEN cs
          ELSE NotifyFrom([cs EXCEPT !.current_progress = progress_info[1],
                                     !.captured_output = Append(@, Stamped(t, line))],
                          callbacks, 1, progress_info[1])
          : progress_info \in {parse_tqdm_line(line)}})

----------------------------------------------------------------------------
(* LogCapture *)

\* a buffer that refuses the new line when it is full
LogAfterAdd_KeepOldest(lines, formatted_line) ==
    IF Len(lines) >= MAX_LINES THEN lines ELSE Append(lines, formatted_line)

\* log_lines.append(formatted_line); pop(0) when longer than max_lines
LogAfterAdd(lines, formatted_line) ==
    LET appended == Append(lines, formatted_line)
    IN  IF Len(appended) > MAX_LINES THEN Tail(appended) ELSE appended

RECURSIVE NotifyLogFrom(_, _, _, _)
\* for callback in self.callbacks: try: callback(formatted_line) except ...,
\* from index i on
NotifyLogFrom(cs, callbacks, i, formatted_line) ==
    IF i > Len(callbacks) \/ cs.exc # None THEN cs
    ELSE NotifyLogFrom(ExceptLogged(Invoke(cs, "log", i, callbacks[i], formatted_line)),
                       callbacks, i + 1, formatted_line)

\* add_log_line that tells the callbacks before it stores the line
LogAdded_NotifyFirst(cs, line, t) ==
    Only({[told EXCEPT !.log_lines = LogAfterAdd(@, Stamped(t, line))]
          : told \in {NotifyLogFrom(cs, cs.log_callbacks, 1, Stamped(t, line))}})

\* add_log_line at time t
LogAdded(cs, line, t) ==
    NotifyLogFrom([cs EXCEPT !.log_lines = LogAfterAdd(@, Stamped(t, line))],
                  cs.log_callbacks, 1, Stamped(t, line))

\* LogCapture.add_log_line
add_log_line(line) == \E cs \in {LogAdded(Captured, line, now)} : Assigned(cs)

\* LogCapture.clear_logs
clear_logs == log_lines' = <<>>

\* LogCapture.get_recent_logs(max_lines); None is "all"
get_recent_logs(max_lines) ==
    IF max_lines = None \/ max_lines[1] >= Len(log_lines) THEN log_lines
    ELSE IF max_lines[1] = 0 THEN log_lines
    ELSE SubSeq(log_lines, Len(log_lines) - max_lines[1] + 1, Len(log_lines))

----------------------------------------------------------------------------
(* ProgressStreamCapture *)

\* ['%', 'it/s', 'step', 'epoch']
Indicators == {<<"%">>, <<"i", "t", "/", "s">>, <<"s", "t", "e", "p">>, <<"e", "p", "o", "c", "h">>}

\* a test that takes every line for a progress line
LooksLikeProgress_Always(line) == TRUE

\* any(indicator in line.lower() for indicator in [...])
LooksLikeProgress(line) == \E indicator \in Indicators : HasSub(Lower(line), indicator)

\* a router that sends every line to the log
StdoutLine_AllToLog(cs, raw, t, callbacks) ==
    LET line == Strip(raw)
    IN  IF line = <<>> THEN cs ELSE LogAdded(cs, line, t)

\* the body of the loop of _process_stdout for one line
StdoutLine(cs, raw, t, callbacks) ==
    LET line == Strip(raw)
    IN  IF line = <<>> THEN cs
        ELSE IF LooksLikeProgress(line) THEN update_progress(cs, line, t, callbacks)
        ELSE LogAdded(cs, line, t)

\* the body of the loop of _process_stderr for one line
StderrLine(cs, raw, t) ==
    LET line == Strip(raw)
    IN  IF line = <<>> THEN cs
        ELSE LogAdded(cs, <<"[", "S", "T", "D", "E", "R", "R", "]", " ">> \o line, t)

RECURSIVE process_stdout_from(_, _, _, _, _)
process_stdout_from(cs, lines, i, t, callbacks) ==
    IF i > Len(lines) \/ cs.exc # None THEN cs
    ELSE process_stdout_from(StdoutLine(cs, lines[i], t, callbacks), lines, i + 1,
                             t, callbacks)

\* ProgressStreamCapture._process_stdout
process_stdout(cs, text, t, callbacks) ==
    process_stdout_from(cs, Split(text, "\n"), 1, t, callbacks)

RECURSIVE process_stderr_from(_, _, _, _)
process_stderr_from(cs, lines, i, t) ==
    IF i > Len(lines) \/ cs.exc # None THEN cs
    ELSE process_stderr_from(StderrLine(cs, lines[i], t), lines, i + 1, t)

\* ProgressStreamCapture._process_stderr
process_stderr(cs, text, t) == process_stderr_from(cs, Split(text, "\n"), 1, t)

\* the stream a CaptureStream was made around (CaptureStream.original)
Original(stream) ==
    [stream EXCEPT !.wrappers = SubSeq(@, 1, Len(@) - 1)]

RECURSIVE StreamWrite(_, _, _, _, _)
\* stream.write(text): a CaptureStream writes to its original, then runs its
\* processor; the interpreter's own stream changes nothing here
StreamWrite(cs, stream, text, t, callbacks) ==
    IF stream.wrappers = <<>> THEN cs
    ELSE Only({IF written.exc # None THEN written
               ELSE IF stream.base = "stdout"
               THEN process_stdout(written, text, t, callbacks)
               ELSE process_stderr(written, text, t)
               : written \in {StreamWrite(cs, Original(stream), text, t, callbacks)}})

\* the state after sys.stdout.write(text) or sys.stderr.write(text)
Written(stream, text) ==
    \E cs \in {StreamWrite(Captured, stream, text, now, tqdm_callbacks)} : Assigned(cs)

\* ProgressStreamCapture.__init__
NewCapture(job_id) ==
    [job_id |-> job_id, original_stdout |-> None, original_stderr |-> None,
     pos |-> "created"]

\* an __exit__ that puts each saved stream in the other's place
StreamsAfterExit_Swapped(capture) ==
    <<capture.original_stderr[1], capture.original_stdout[1]>>

\* (sys.stdout, sys.stderr) after __exit__
StreamsAfterExit(capture) ==
    <<capture.original_stdout[1], capture.original_stderr[1]>>

\* ProgressStreamCapture.__enter__ of capture k
enter(k) ==
    /\ captures' = [captures EXCEPT ![k].original_stdout = Some(sys_stdout),
                                    ![k].original_stderr = Some(sys_stderr),
                                    ![k].pos = "entered"]
    /\ sys_stdout' = [sys_stdout EXCEPT !.wrappers = Append(@, k)]
    /\ sys_stderr' = [sys_stderr EXCEPT !.wrappers = Append(@, k)]

\* ProgressStreamCapture.__exit__ of capture k; it returns None, so an
\* error raised in the block goes on to the caller of the with statement
exit(k, exc_type) ==
    /\ sys_stdout' = StreamsAfterExit(captures[k])[1]
    /\ sys_stderr' = StreamsAfterExit(captures[k])[2]
    /\ captures' = [captures EXCEPT ![k].pos = IF exc_type = None THEN "left"
                                                ELSE "raised"]

----------------------------------------------------------------------------
(* EnhancedProgressTracker *)

\* EnhancedProgressTracker.start_job_tracking
start_job_tracking(job_id) ==
    /\ active_job_id' = Some(job_id)
    /\ captured_output' = <<>>
    /\ current_progress' = DefaultProgressInfo
    /\ clear_logs
    /\ tqdm_callbacks' = Append(tqdm_callbacks, QueueProgressCallback(job_id))
    /\ captures' = Append(captures, NewCapture(job_id))

\* TqdmCapture.get_recent_output(max_lines): self.captured_output[-max_lines:]
get_recent_output(max_lines) ==
    IF max_lines = 0 \/ max_lines >= Len(captured_output) THEN captured_output
    ELSE SubSeq(captured_output, Len(captured_output) - max_lines + 1, Len(captured_output))

\* the "progress" entry of get_job_progress_info
ProgressEntry(progress_info) ==
    [percentage   |-> progress_info.percentage,
     current_step |-> progress_info.current_step,
     total_steps  |-> progress_info.total_steps,
     eta          |-> progress_info.eta,
     description  |-> progress_info.description,
     elapsed_time |-> progress_info.elapsed_time]

\* a reply with the capture state whatever the id
get_job_progress_info_Always(job_id) ==
    [active      |-> TRUE,
     progress    |-> ProgressEntry(current_progress),
     recent_logs |-> get_recent_logs(Some(20)),
     tqdm_output |-> get_recent_output(10)]

\* EnhancedProgressTracker.get_job_progress_info
get_job_progress_info(job_id) ==
    IF Some(job_id) # active_job_id
    THEN [active |-> FALSE]
    ELSE [active      |-> TRUE,
          progress    |-> ProgressEntry(current_progress),
          recent_logs |-> get_recent_logs(Some(20)),
          tqdm_output |-> get_recent_output(10)]

----------------------------------------------------------------------------
(* Callers.  A caller may pass every id the run admits (n of them): an id *)
(* is unknown to the manager before it is admitted and after it is       *)
(* completed.                                                            *)

Ids(n) == 1..n

Admit(n, types) ==
    /\ \E job_type \in types : uuid_issued < n /\ add_job(job_type, None)
    /\ UNCHANGED cvars
Start(n) ==
    /\ \E job_id \in Ids(n) : start_job(job_id)
    /\ UNCHANGED cvars
UpdateProgress(n) ==
    /\ \E job_id \in Ids(n), u \in ProgressInputs : update_job_progress(job_id, u[1], u[2])
    /\ UNCHANGED cvars
Complete(n) ==
    /\ \E job_id \in Ids(n), c \in CompleteInputs : complete_job(job_id, c[1], c[2])
    /\ UNCHANGED cvars
\* start_job for a job that waits
StartNext ==
    /\ \E job_id \in DOMAIN jobs :
          jobs[job_id].status = "queued" /\ start_job(job_id)
    /\ UNCHANGED cvars
\* complete_job for a job of the live store
CompleteLive ==
    /\ \E job_id \in DOMAIN jobs, c \in CompleteInputs : complete_job(job_id, c[1], c[2])
    /\ UNCHANGED cvars
PurgeOlderThan ==
    /\ \E max_age_hours \in MaxAgeHours : cleanup_old_jobs(max_age_hours)
    /\ UNCHANGED cvars
Time ==
    /\ \E d \in TickSteps : Tick(d)
    /\ UNCHANGED cvars

----------------------------------------------------------------------------
(* Spec: any sequence of calls of the five mutating methods *)

Next ==
    \/ Admit(MaxJobs, {"single"})
    \/ Start(MaxJobs)
    \/ UpdateProgress(MaxJobs)
    \/ Complete(MaxJobs)
    \/ PurgeOlderThan

Spec == Init /\ [][Next]_vars

----------------------------------------------------------------------------
(* SpecSerial: as Spec, with a caller that starts a job only when          *)
(* get_queue_status() shows no active job                                  *)

SerialStart(n) ==
    /\ \E job_id \in Ids(n) : get_queue_status.active_job = None /\ start_job(job_id)
    /\ UNCHANGED cvars

NextSerial ==
    \/ Admit(MaxJobs, {"single"})
    \/ SerialStart(MaxJobs)
    \/ UpdateProgress(MaxJobs)
    \/ Complete(MaxJobs)
    \/ PurgeOlderThan

SpecSerial == Init /\ [][NextSerial]_vars

----------------------------------------------------------------------------
(* SpecAdmitStart: Admit and Start calls only, while the clock runs *)

NextAdmitStart ==
    \/ Admit(MaxQueued, JobTypes)
    \/ Start(MaxQueued)
    \/ Time

SpecAdmitStart == Init /\ [][NextAdmitStart]_vars

----------------------------------------------------------------------------
(* SpecAvg: jobs of every kind admitted, started and completed while the   *)
(* clock runs                                                              *)

NextAvg ==
    \/ Admit(MaxTimed, JobTypes)
    \/ Start(MaxTimed)
    \/ Complete(MaxTimed)
    \/ Time

SpecAvg == Init /\ [][NextAvg]_vars

----------------------------------------------------------------------------
(* SpecWait: a single worker takes one job and reports its progress while  *)
(* the clock runs and other jobs are admitted behind it                    *)

\* the pipeline reports progress for the job it has started
UpdateRunning(n) ==
    /\ \E job_id \in Ids(n), u \in ProgressInputs :
          /\ job_id \in DOMAIN jobs
          /\ jobs[job_id].status = "processing"
          /\ update_job_progress(job_id, u[1], u[2])
    /\ UNCHANGED cvars

NextWait ==
    \/ Admit(MaxQueued, {"single", "multi"})
    \/ SerialStart(MaxQueued)
    \/ UpdateRunning(MaxQueued)
    \/ Time

SpecWait == Init /\ [][NextWait]_vars

----------------------------------------------------------------------------
(* SpecLog: lines are logged one after the other, the buffer is cleared    *)
(* now and then                                                            *)

\* the n-th line the task writes
LineNo(n) == <<"l", "i", "n", "e", " ">> \o Str(n)

LogLine ==
    /\ lines_written < MaxLogLines
    /\ add_log_line(LineNo(lines_written + 1))
    /\ lines_written' = lines_written + 1
    /\ UNCHANGED <<queue_order, active_job, job_history, avg_processing_times, now,
                   uuid_issued, sys_stdout, sys_stderr, captures, active_job_id,
                   tqdm_callbacks, log_callbacks, pvars, lvars>>

ClearLogs ==
    /\ clear_logs
    /\ UNCHANGED <<qvars, now, uuid_issued, last_call, lines_written, sys_stdout,
                   sys_stderr, captures, active_job_id, current_progress,
                   captured_output, tqdm_callbacks, nvars>>

NextLog == LogLine \/ ClearLogs

SpecLog == Init /\ [][NextLog]_vars

----------------------------------------------------------------------------
(* SpecAnyId: uuid4()[:8] may give any id, also one it gave before; jobs   *)
(* are admitted, started and completed                                     *)

AdmitAnyId(n, types) ==
    /\ \E job_id \in Ids(n), job_type \in types :
          uuid_issued < n /\ add_job_drawing(job_id, job_type, None)
    /\ UNCHANGED cvars

NextAnyId ==
    \/ AdmitAnyId(MaxJobs, {"single"})
    \/ StartNext
    \/ CompleteLive

SpecAnyId == Init /\ [][NextAnyId]_vars

----------------------------------------------------------------------------
(* SpecStatus: more jobs than get_queue_status lists are admitted; any     *)
(* waiting job may be started, and the job admitted last may be failed     *)
(* while it still waits                                                    *)

\* complete_job(job_id, success=False, ...) for the job admitted last, not started
FailLastAdmitted ==
    /\ uuid_issued \in DOMAIN jobs
    /\ jobs[uuid_issued].status = "queued"
    /\ complete_job(uuid_issued, FALSE, Some("boom"))
    /\ UNCHANGED cvars

NextStatus ==
    \/ Admit(MaxListed, {"single"})
    \/ StartNext
    \/ FailLastAdmitted

SpecStatus == Init /\ [][NextStatus]_vars

----------------------------------------------------------------------------
(* SpecEstimate: jobs of every kind are admitted, started and completed    *)
(* while the clock runs, so that the averages move while jobs are live     *)

NextEstimate ==
    \/ Admit(MaxJobs, JobTypes)
    \/ StartNext
    \/ CompleteLive
    \/ Time

SpecEstimate == Init /\ [][NextEstimate]_vars

----------------------------------------------------------------------------
(* SpecPurge: jobs are admitted, started and completed while the clock     *)
(* makes steps of an hour, and the history is purged at any time           *)

Purge(ages) ==
    /\ \E max_age_hours \in ages : cleanup_old_jobs(max_age_hours)
    /\ UNCHANGED cvars

Hours ==
    /\ \E d \in HourSteps : Tick(d)
    /\ UNCHANGED cvars

NextPurge ==
    \/ Admit(MaxJobs, {"single"})
    \/ StartNext
    \/ CompleteLive
    \/ Purge(PurgeAges)
    \/ Hours

SpecPurge == Init /\ [][NextPurge]_vars

----------------------------------------------------------------------------
(* SpecHistory: a long run of one worker: a job is admitted when the one   *)
(* before it is retired, started and completed.  The jobs are of a kind    *)
(* without a running average, so the averages stay as they are.            *)

AdmitNext(n) ==
    /\ jobs = <<>>
    /\ Admit(n, {"other"})

CompleteOk ==
    /\ \E job_id \in DOMAIN jobs :
          /\ jobs[job_id].status = "processing"
          /\ complete_job(job_id, TRUE, None)
    /\ UNCHANGED cvars

NextHistory ==
    \/ AdmitNext(MaxRetired)
    \/ StartNext
    \/ CompleteOk

SpecHistory == Init /\ [][NextHistory]_vars

----------------------------------------------------------------------------
(* SpecTrack: jobs are admitted, started and tracked one with-block at a   *)
(* time; the task writes to the standard streams; jobs are completed       *)

Closed(capture) == capture.pos \in {"left", "raised"}

\* with progress_tracker.start_job_tracking(job_id): the call
TrackJob(n) ==
    /\ \E job_id \in Ids(n) :
          /\ job_id \in DOMAIN jobs
          /\ jobs[job_id].status = "processing"
          /\ \A k \in 1..Len(captures) :
                 captures[k].job_id # job_id /\ Closed(captures[k])
          /\ start_job_tracking(job_id)
    /\ UNCHANGED <<qvars, now, uuid_issued, last_call, lines_written, sys_stdout,
                   sys_stderr, nvars>>

\* with progress_tracker.start_job_tracking(job_id): entering the block
EnterBlock ==
    /\ \E k \in 1..Len(captures) : captures[k].pos = "created" /\ enter(k)
    /\ UNCHANGED <<qvars, now, uuid_issued, last_call, log_lines, lines_written,
                   active_job_id, current_progress, captured_output, tqdm_callbacks,
                   nvars>>

\* the block ends, by return or by an error
LeaveBlock ==
    /\ \E k \in 1..Len(captures), exc_type \in ExcTypes :
          captures[k].pos = "entered" /\ exit(k, exc_type)
    /\ UNCHANGED <<qvars, now, uuid_issued, last_call, log_lines, lines_written,
                   active_job_id, current_progress, captured_output, tqdm_callbacks,
                   nvars>>

\* the task writes while its block is open
InBlock == \E k \in 1..Len(captures) : captures[k].pos = "entered"

WriteOut ==
    /\ lines_written < MaxWrites
    /\ InBlock
    /\ \E text \in StdoutTexts : Written(sys_stdout, text)
    /\ lines_written' = lines_written + 1
    /\ UNCHANGED <<queue_order, active_job, job_history, avg_processing_times, now,
                   uuid_issued, sys_stdout, sys_stderr, captures, active_job_id,
                   tqdm_callbacks, log_callbacks, pvars, lvars>>

WriteErr ==
    /\ lines_written < MaxWrites
    /\ InBlock
    /\ \E text \in StderrTexts : Written(sys_stderr, text)
    /\ lines_written' = lines_written + 1
    /\ UNCHANGED <<queue_order, active_job, job_history, avg_processing_times, now,
                   uuid_issued, sys_stdout, sys_stderr, captures, active_job_id,
                   tqdm_callbacks, log_callbacks, pvars, lvars>>

\* complete_job(job_id, success=True) before the block returns,
\* complete_job(job_id, success=False, error_message=str(e)) after it raised
CompleteTracked ==
    /\ \E k \in 1..Len(captures), c \in CompleteInputs :
          /\ captures[k].pos = IF c[1] THEN "entered" ELSE "raised"
          /\ complete_job(captures[k].job_id, c[1], c[2])
    /\ UNCHANGED cvars

NextTrack ==
    \/ Admit(MaxTracked, {"single"})
    \/ Start(MaxTracked)
    \/ TrackJob(MaxTracked)
    \/ EnterBlock
    \/ WriteOut
    \/ WriteErr
    \/ LeaveBlock
    \/ CompleteTracked

SpecTrack == Init /\ [][NextTrack]_vars

----------------------------------------------------------------------------
(* SpecCallbacks: callables that return or raise are registered on the two *)
(* captures, a job is tracked, and update_progress and add_log_line are    *)
(* called                                                                  *)

\* tqdm_capture.add_callback(callback)
AddProgressCallback ==
    /\ Len(SelectSeq(tqdm_callbacks, LAMBDA c : c.fn = "callable")) < MaxCallbacks
    /\ \E raises \in BOOLEAN : tqdm_callbacks' = Append(tqdm_callbacks, Callable(raises))
    /\ UNCHANGED <<qvars, now, uuid_issued, last_call, log_lines, lines_written,
                   sys_stdout, sys_stderr, captures, active_job_id, current_progress,
                   captured_output, nvars>>

\* log_capture.add_callback(callback)
AddLogCallback ==
    /\ Len(log_callbacks) < MaxCallbacks
    /\ \E raises \in BOOLEAN : log_callbacks' = Append(log_callbacks, Callable(raises))
    /\ UNCHANGED <<qvars, now, uuid_issued, last_call, log_lines, lines_written,
                   sys_stdout, sys_stderr, captures, active_job_id, current_progress,
                   captured_output, tqdm_callbacks, notified, call_raised, pvars, lvars>>

\* tqdm_capture.update_progress(line)
ProgressCall ==
    /\ lines_written < MaxCalls
    /\ \E line \in ProgressLines :
          \E cs \in {update_progress(Captured, line, now, tqdm_callbacks)} : Assigned(cs)
    /\ lines_written' = lines_written + 1
    /\ UNCHANGED <<queue_order, active_job, job_history, avg_processing_times, now,
                   uuid_issued, sys_stdout, sys_stderr, captures, active_job_id,
                   tqdm_callbacks, log_callbacks, pvars, lvars>>

\* log_capture.add_log_line(line)
LogCall ==
    /\ lines_written < MaxCalls
    /\ \E line \in LogLines : add_log_line(line)
    /\ lines_written' = lines_written + 1
    /\ UNCHANGED <<queue_order, active_job, job_history, avg_processing_times, now,
                   uuid_issued, sys_stdout, sys_stderr, captures, active_job_id,
                   tqdm_callbacks, log_callbacks, pvars, lvars>>

NextCallbacks ==
    \/ Admit(MaxTracked, {"single"})
    \/ StartNext
    \/ TrackJob(MaxTracked)
    \/ AddProgressCallback
    \/ AddLogCallback
    \/ ProgressCall
    \/ LogCall

SpecCallbacks == Init /\ [][NextCallbacks]_vars

----------------------------------------------------------------------------
(* SpecOutput: a job is tracked and update_progress is called for one      *)
(* progress line after the other                                           *)

\* tqdm_capture.update_progress(line) while a job is tracked
ProgressUpdate ==
    /\ lines_written < MaxUpdates
    /\ active_job_id # None
    /\ \E cs \in {update_progress(Captured, LINE_PCT, now, tqdm_callbacks)} : Assigned(cs)
    /\ lines_written' = lines_written + 1
    /\ UNCHANGED <<queue_order, active_job, job_history, avg_processing_times, now,
                   uuid_issued, sys_stdout, sys_stderr, captures, active_job_id,
                   tqdm_callbacks, log_callbacks, pvars, lvars>>

NextOutput ==
    \/ Admit(MaxTracked, {"single"})
    \/ StartNext
    \/ TrackJob(MaxTracked)
    \/ ProgressUpdate

SpecOutput == Init /\ [][NextOutput]_vars

----------------------------------------------------------------------------
(* SpecGenerate: MultiTalkPipeline.generate is called, also while an       *)
(* earlier call is still running; each call admits its job, starts it,     *)
(* tracks it and runs the generation task, which writes progress and       *)
(* returns or raises                                                       *)

\* generate(..., job_id=None): job_id = queue_manager.add_job(mode)
GenerateCall(job_id) ==
    [job_id |-> job_id, pc |-> "start_job", update |-> 1, capture |-> 0,
     result |-> None, error |-> None]

\* call g of generate stands at position pc
At(g, pc) == g \in 1..Len(generate_calls) /\ generate_calls[g].pc = pc

Gen_AddJob ==
    /\ Len(generate_calls) < MaxGenerate
    /\ \E mode \in GenerateModes : add_job(mode, None)
    /\ generate_calls' = Append(generate_calls, GenerateCall(NewJobId))
    /\ UNCHANGED <<tvars, lvars>>

\* queue_manager.start_job(job_id)
Gen_StartJob(g) ==
    /\ At(g, "start_job")
    /\ start_job(generate_calls[g].job_id)
    /\ generate_calls' = [generate_calls EXCEPT ![g].pc = "track"]
    /\ UNCHANGED <<tvars, lvars>>

\* with progress_tracker.start_job_tracking(job_id): the call
Gen_Track(g) ==
    /\ At(g, "track")
    /\ start_job_tracking(generate_calls[g].job_id)
    /\ generate_calls' = [generate_calls EXCEPT ![g].pc = "enter",
                                                ![g].capture = Len(captures) + 1]
    /\ UNCHANGED <<qvars, now, uuid_issued, last_call, lines_written, sys_stdout,
                   sys_stderr, log_callbacks, notified, call_raised, lvars>>

\* with progress_tracker.start_job_tracking(job_id): entering the block
Gen_Enter(g) ==
    /\ At(g, "enter")
    /\ enter(generate_calls[g].capture)
    /\ generate_calls' = [generate_calls EXCEPT ![g].pc = "update"]
    /\ UNCHANGED <<qvars, now, uuid_issued, last_call, log_lines, lines_written,
                   active_job_id, current_progress, captured_output, tqdm_callbacks,
                   log_callbacks, notified, call_raised, lvars>>

\* queue_manager.update_job_progress(job_id, ...): 0.1, 0.2 and 0.3 before the
\* generation task, 0.8 and 1.0 after it
Gen_Update(g) ==
    /\ At(g, "update")
    /\ LET u == generate_calls[g].update
       IN  /\ update_job_progress(generate_calls[g].job_id, GenerateUpdates[u][1],
                                  GenerateUpdates[u][2])
           /\ generate_calls' =
                  [generate_calls EXCEPT ![g].update = u + 1,
                                         ![g].pc = IF u = 3 THEN "task"
                                                   ELSE IF u = 5 THEN "complete"
                                                   ELSE "update"]
    /\ UNCHANGED <<tvars, lvars>>

\* the generation task writes a progress bar to its standard output
Gen_TaskWrites(g) ==
    /\ At(g, "task")
    /\ lines_written < MaxTaskWrites
    /\ \E text \in TaskTexts : Written(sys_stdout, text)
    /\ lines_written' = lines_written + 1
    /\ UNCHANGED <<queue_order, active_job, job_history, avg_processing_times, now,
                   uuid_issued, sys_stdout, sys_stderr, captures, active_job_id,
                   tqdm_callbacks, log_callbacks, pvars, lvars>>

\* self.pipeline.generate(...) returns the video
Gen_TaskReturns(g) ==
    /\ At(g, "task")
    /\ generate_calls' = [generate_calls EXCEPT ![g].pc = "update"]
    /\ UNCHANGED <<qvars, now, uuid_issued, last_call, tvars, lvars>>

\* the statements of the block that raise: _prepare_audio_embeddings after the
\* second update, the generation task, and the check that the video file exists
RaisesAt(g) ==
    \/ At(g, "update") /\ generate_calls[g].update = 3
    \/ At(g, "task")
    \/ At(g, "complete")

\* an error inside the block: __exit__ runs with the error
Gen_Raises(g) ==
    /\ RaisesAt(g)
    /\ exit(generate_calls[g].capture, Some("RuntimeError"))
    /\ \E text \in ErrorTexts :
          generate_calls' = [generate_calls EXCEPT ![g].pc = "except",
                                                   ![g].error = Some(text)]
    /\ UNCHANGED <<qvars, now, uuid_issued, last_call, log_lines, lines_written,
                   active_job_id, current_progress, captured_output, tqdm_callbacks,
                   log_callbacks, notified, call_raised, lvars>>

\* a success path that returns without telling the queue manager
Gen_CompleteOk_Skip(g) ==
    /\ At(g, "complete")
    /\ generate_calls' = [generate_calls EXCEPT ![g].pc = "return"]
    /\ UNCHANGED <<qvars, now, uuid_issued, last_call, tvars, lvars>>

\* queue_manager.complete_job(job_id, success=True)
Gen_CompleteOk(g) ==
    /\ At(g, "complete")
    /\ complete_job(generate_calls[g].job_id, TRUE, None)
    /\ generate_calls' = [generate_calls EXCEPT ![g].pc = "return"]
    /\ UNCHANGED <<tvars, lvars>>

\* return output_path: __exit__ runs without an error
Gen_Return(g) ==
    /\ At(g, "return")
    /\ exit(generate_calls[g].capture, None)
    /\ generate_calls' = [generate_calls EXCEPT ![g].pc = "done",
                                                ![g].result = Some("returned")]
    /\ UNCHANGED <<qvars, now, uuid_issued, last_call, log_lines, lines_written,
                   active_job_id, current_progress, captured_output, tqdm_callbacks,
                   log_callbacks, notified, call_raised, lvars>>

\* a handler that records the failure and returns to the caller
Gen_Except_Swallow(g) ==
    /\ At(g, "except")
    /\ complete_job(generate_calls[g].job_id, FALSE, generate_calls[g].error)
    /\ generate_calls' = [generate_calls EXCEPT ![g].pc = "done",
                                                ![g].result = Some("returned")]
    /\ UNCHANGED <<tvars, lvars>>

\* except Exception as e: complete_job(job_id, success=False,
\* error_message=str(e)); raise
Gen_Except(g) ==
    /\ At(g, "except")
    /\ complete_job(generate_calls[g].job_id, FALSE, generate_calls[g].error)
    /\ generate_calls' = [generate_calls EXCEPT ![g].pc = "done",
                                                ![g].result = Some("raised")]
    /\ UNCHANGED <<tvars, lvars>>

\* call g goes on to its next statement, or its generation task ends
Gen_Proceeds(g) ==
    \/ Gen_StartJob(g)
    \/ Gen_Track(g)
    \/ Gen_Enter(g)
    \/ Gen_Update(g)
    \/ Gen_TaskReturns(g)
    \/ Gen_Raises(g)
    \/ Gen_CompleteOk(g)
    \/ Gen_Return(g)
    \/ Gen_Except(g)

NextGenerate ==
    \/ Gen_AddJob
    \/ \E g \in 1..MaxGenerate : Gen_Proceeds(g) \/ Gen_TaskWrites(g)

SpecGenerate == Init /\ [][NextGenerate]_vars

\* every call that has begun goes on, and its generation task returns or raises
\* after the writes it makes
SpecGenerateFair == SpecGenerate /\ \A g \in 1..MaxGenerate : WF_vars(Gen_Proceeds(g))

----------------------------------------------------------------------------
(* SpecSupplied: generate is called with a job_id of the caller's: an id   *)
(* that add_job has returned to the caller, or one the manager never       *)
(* issued (0)                                                              *)

\* generate(..., job_id=job_id): add_job is skipped
Gen_Supplied ==
    /\ Len(generate_calls) < MaxGenerate
    /\ \E job_id \in 0..uuid_issued :
          generate_calls' = Append(generate_calls, GenerateCall(job_id))
    /\ UNCHANGED <<qvars, now, uuid_issued, last_call, tvars, lvars>>

NextSupplied ==
    \/ Admit(MaxTracked, GenerateModes)
    \/ Gen_Supplied
    \/ \E g \in 1..MaxGenerate : Gen_Proceeds(g) \/ Gen_TaskWrites(g)

SpecSupplied == Init /\ [][NextSupplied]_vars

----------------------------------------------------------------------------
(* SpecLock: threads call add_job, start_job, update_job_progress,         *)
(* complete_job and get_queue_status at the same time; each method runs    *)
(* its statements one by one inside `with self.lock`                       *)

\* a lock that never makes a thread wait
Acquirable_Always == TRUE

\* threading.Lock: `with self.lock` waits while another thread holds the lock
Acquirable == lock = None

\* thread t stands at statement pc of method op
In(t, op, pc) ==
    /\ t \in 1..Len(threads)
    /\ threads[t].op = op
    /\ threads[t].pc = pc

\* a thread enters a method with its arguments: [op, job_id, args, pc]
ThreadCall(op, job_id, args) == [op |-> op, job_id |-> job_id, args |-> args, pc |-> "acquire"]

\* thread t goes on to statement pc
Goto(t, pc) == threads' = [threads EXCEPT ![t].pc = pc]

\* the end of the with block: the lock is released and the method returns
Release(t) ==
    /\ lock' = None
    /\ Goto(t, "done")

\* add_job up to the with block: the id is drawn and the record is built
Lock_CallAddJob ==
    /\ Len(threads) < MaxThreads
    /\ \E job_type \in {"single"} :
          threads' = Append(threads,
                            ThreadCall("add_job", NewJobId,
                                       JobInfo(NewJobId, None, job_type, now,
                                               avg_processing_times)))
    /\ uuid_issued' = uuid_issued + 1
    /\ UNCHANGED <<qvars, now, last_call, tvars, pvars, lock, snapshot, capture_locks>>

\* a thread enters start_job, update_job_progress or complete_job for an id
\* that add_job has returned or is about to return, or get_queue_status
Lock_Call ==
    /\ Len(threads) < MaxThreads
    /\ \/ \E job_id \in 1..uuid_issued :
             \/ threads' = Append(threads, ThreadCall("start_job", job_id, <<>>))
             \/ \E args \in ProgressInputs :
                   threads' = Append(threads, ThreadCall("update_job_progress", job_id, args))
             \/ \E args \in CompleteInputs :
                   threads' = Append(threads, ThreadCall("complete_job", job_id, args))
       \/ threads' = Append(threads, ThreadCall("get_queue_status", 0, <<>>))
    /\ UNCHANGED <<qvars, now, uuid_issued, last_call, tvars, pvars, lock, snapshot, capture_locks>>

\* with self.lock: the thread takes the lock and stands at the first statement
Lock_Acquire(t) ==
    /\ t \in 1..Len(threads)
    /\ threads[t].pc = "acquire"
    /\ Acquirable
    /\ lock' = Some(t)
    /\ Goto(t, "first")
    /\ UNCHANGED <<qvars, now, uuid_issued, last_call, tvars, pvars, snapshot, capture_locks>>

\* add_job: self.jobs[job_id] = job
Lock_AddJobStore(t) ==
    /\ In(t, "add_job", "first")
    /\ jobs' = DictSet(jobs, threads[t].job_id, threads[t].args)
    /\ Goto(t, "append")
    /\ UNCHANGED <<queue_order, active_job, job_history, avg_processing_times, now,
                   uuid_issued, last_call, tvars, pvars, lock, snapshot, capture_locks>>

\* add_job: self.queue_order.append(job_id)
Lock_AddJobAppend(t) ==
    /\ In(t, "add_job", "append")
    /\ queue_order' = Append(queue_order, threads[t].job_id)
    /\ Release(t)
    /\ UNCHANGED <<jobs, active_job, job_history, avg_processing_times, now,
                   uuid_issued, last_call, tvars, pvars, snapshot, capture_locks>>

\* start_job, update_job_progress, complete_job: the id is not in self.jobs
Lock_NotFound(t) ==
    /\ \E op \in {"start_job", "update_job_progress", "complete_job"} : In(t, op, "first")
    /\ threads[t].job_id \notin DOMAIN jobs
    /\ Release(t)
    /\ UNCHANGED <<qvars, now, uuid_issued, last_call, tvars, pvars, snapshot, capture_locks>>

\* start_job: job.status = "processing"; job.started_at = datetime.now()
Lock_StartStatus(t) ==
    /\ In(t, "start_job", "first")
    /\ threads[t].job_id \in DOMAIN jobs
    /\ jobs' = DictSet(jobs, threads[t].job_id, StartedJob(jobs[threads[t].job_id], now))
    /\ Goto(t, "active")
    /\ UNCHANGED <<queue_order, active_job, job_history, avg_processing_times, now,
                   uuid_issued, last_call, tvars, pvars, lock, snapshot, capture_locks>>

\* start_job: self.active_job = job_id
Lock_StartActive(t) ==
    /\ In(t, "start_job", "active")
    /\ active_job' = ActiveAfterStart(active_job, threads[t].job_id)
    /\ Goto(t, "remove")
    /\ UNCHANGED <<jobs, queue_order, job_history, avg_processing_times, now,
                   uuid_issued, last_call, tvars, pvars, lock, snapshot, capture_locks>>

\* start_job: self.queue_order.remove(job_id)
Lock_StartRemove(t) ==
    /\ In(t, "start_job", "remove")
    /\ queue_order' = QueueAfterStart(queue_order, threads[t].job_id)
    /\ Release(t)
    /\ UNCHANGED <<jobs, active_job, job_history, avg_processing_times, now,
                   uuid_issued, last_call, tvars, pvars, snapshot, capture_locks>>

\* update_job_progress: progress and current_step of the record
Lock_Update(t) ==
    /\ In(t, "update_job_progress", "first")
    /\ threads[t].job_id \in DOMAIN jobs
    /\ jobs' = UpdatedJobs(jobs, threads[t].job_id, threads[t].args[1], threads[t].args[2])
    /\ Release(t)
    /\ UNCHANGED <<queue_order, active_job, job_history, avg_processing_times, now,
                   uuid_issued, last_call, tvars, pvars, snapshot, capture_locks>>

\* complete_job: status, completed_at, progress and error_message of the record
Lock_CompleteStatus(t) ==
    /\ In(t, "complete_job", "first")
    /\ threads[t].job_id \in DOMAIN jobs
    /\ jobs' = DictSet(jobs, threads[t].job_id,
                       CompletedJob(jobs[threads[t].job_id], threads[t].args[1],
                                    threads[t].args[2], now))
    /\ Goto(t, "history")
    /\ UNCHANGED <<queue_order, active_job, job_history, avg_processing_times, now,
                   uuid_issued, last_call, tvars, pvars, lock, snapshot, capture_locks>>

\* complete_job: the average is updated and the record goes to the history
Lock_CompleteHistory(t) ==
    /\ In(t, "complete_job", "history")
    /\ avg_processing_times' =
           AvgAfterComplete(avg_processing_times, jobs[threads[t].job_id], threads[t].args[1])
    /\ job_history' = HistoryAppend(job_history, jobs[threads[t].job_id])
    /\ Goto(t, "active")
    /\ UNCHANGED <<jobs, queue_order, active_job, now,
                   uuid_issued, last_call, tvars, pvars, lock, snapshot, capture_locks>>

\* complete_job: if self.active_job == job_id: self.active_job = None
Lock_CompleteActive(t) ==
    /\ In(t, "complete_job", "active")
    /\ active_job' = ActiveAfterComplete(active_job, threads[t].job_id)
    /\ Goto(t, "del")
    /\ UNCHANGED <<jobs, queue_order, job_history, avg_processing_times, now,
                   uuid_issued, last_call, tvars, pvars, lock, snapshot, capture_locks>>

\* complete_job: del self.jobs[job_id]
Lock_CompleteDel(t) ==
    /\ In(t, "complete_job", "del")
    /\ jobs' = JobsAfterComplete(jobs, threads[t].job_id)
    /\ Release(t)
    /\ UNCHANGED <<queue_order, active_job, job_history, avg_processing_times, now,
                   uuid_issued, last_call, tvars, pvars, snapshot, capture_locks>>

\* get_queue_status: the result is put together and returned
Lock_Read(t) ==
    /\ In(t, "get_queue_status", "first")
    /\ snapshot' = Some(get_queue_status)
    /\ Release(t)
    /\ UNCHANGED <<qvars, now, uuid_issued, last_call, tvars, pvars, capture_locks>>

NextLock ==
    \/ Lock_CallAddJob
    \/ Lock_Call
    \/ \E t \in 1..MaxThreads :
          \/ Lock_Acquire(t)
          \/ Lock_AddJobStore(t)
          \/ Lock_AddJobAppend(t)
          \/ Lock_NotFound(t)
          \/ Lock_StartStatus(t)
          \/ Lock_StartActive(t)
          \/ Lock_StartRemove(t)
          \/ Lock_Update(t)
          \/ Lock_CompleteStatus(t)
          \/ Lock_CompleteHistory(t)
          \/ Lock_CompleteActive(t)
          \/ Lock_CompleteDel(t)
          \/ Lock_Read(t)

SpecLock == Init /\ [][NextLock]_vars

----------------------------------------------------------------------------
(* SpecTracking: start_job_tracking and get_job_progress_info run their    *)
(* statements one by one, in threads of their own, while lines are added   *)
(* to the two captures; a line names the job tracked when it is added      *)

\* a thread stands at statement pc of a tracker method
TrackerCall(op, job_id, pc) == [ThreadCall(op, job_id, <<>>) EXCEPT !.pc = pc]

\* the threads that run method op
Calls(op) == {t \in 1..Len(threads) : threads[t].op = op}

\* generate calls start_job_tracking(job_id) for the job it has started
Trk_CallTrack ==
    /\ \E job_id \in DOMAIN jobs :
          /\ jobs[job_id].status = "processing"
          /\ \A t \in Calls("start_job_tracking") : threads[t].job_id # job_id
          /\ threads' = Append(threads, TrackerCall("start_job_tracking", job_id, "set"))
    /\ UNCHANGED <<qvars, now, uuid_issued, last_call, tvars, pvars, lock, snapshot, capture_locks>>

\* self.active_job_id = job_id
Trk_SetActive(t) ==
    /\ In(t, "start_job_tracking", "set")
    /\ active_job_id' = Some(threads[t].job_id)
    /\ Goto(t, "clear_output")
    /\ UNCHANGED <<qvars, now, uuid_issued, last_call, log_lines, lines_written,
                   sys_stdout, sys_stderr, captures, current_progress, captured_output,
                   tqdm_callbacks, log_callbacks, notified, call_raised, pvars, lock,
                   snapshot, capture_locks>>

\* self.tqdm_capture.clear_output()
Trk_ClearOutput(t) ==
    /\ In(t, "start_job_tracking", "clear_output")
    /\ captured_output' = <<>>
    /\ current_progress' = DefaultProgressInfo
    /\ Goto(t, "clear_logs")
    /\ UNCHANGED <<qvars, now, uuid_issued, last_call, log_lines, lines_written,
                   sys_stdout, sys_stderr, captures, active_job_id, tqdm_callbacks,
                   log_callbacks, notified, call_raised, pvars, lock, snapshot, capture_locks>>

\* self.log_capture.clear_logs()
Trk_ClearLogs(t) ==
    /\ In(t, "start_job_tracking", "clear_logs")
    /\ clear_logs
    /\ Goto(t, "add_callback")
    /\ UNCHANGED <<qvars, now, uuid_issued, last_call, lines_written, sys_stdout,
                   sys_stderr, captures, active_job_id, current_progress,
                   captured_output, tqdm_callbacks, log_callbacks, notified,
                   call_raised, pvars, lock, snapshot, capture_locks>>

\* self.tqdm_capture.add_callback(update_queue_progress); return the capture
Trk_AddCallback(t) ==
    /\ In(t, "start_job_tracking", "add_callback")
    /\ tqdm_callbacks' = Append(tqdm_callbacks, QueueProgressCallback(threads[t].job_id))
    /\ captures' = Append(captures, NewCapture(threads[t].job_id))
    /\ Goto(t, "done")
    /\ UNCHANGED <<qvars, now, uuid_issued, last_call, log_lines, lines_written,
                   sys_stdout, sys_stderr, active_job_id, current_progress,
                   captured_output, log_callbacks, notified, call_raised, pvars, lock,
                   snapshot, capture_locks>>

\* the task of a job whose tracking has begun is running
TaskRuns ==
    \E t \in Calls("start_job_tracking") : threads[t].pc = "done"

\* the task writes a line that goes to add_log_line
Trk_Log ==
    /\ lines_written < MaxCalls
    /\ TaskRuns
    /\ add_log_line(LineNo(active_job_id[1]))
    /\ lines_written' = lines_written + 1
    /\ UNCHANGED <<queue_order, active_job, job_history, avg_processing_times, now,
                   uuid_issued, sys_stdout, sys_stderr, captures, active_job_id,
                   tqdm_callbacks, log_callbacks, pvars, lvars>>

\* the task writes a progress line that goes to update_progress
Trk_Progress ==
    /\ lines_written < MaxCalls
    /\ TaskRuns
    /\ \E cs \in {update_progress(Captured, Str(active_job_id[1]) \o <<"%">>, now,
                                   tqdm_callbacks)} : Assigned(cs)
    /\ lines_written' = lines_written + 1
    /\ UNCHANGED <<queue_order, active_job, job_history, avg_processing_times, now,
                   uuid_issued, sys_stdout, sys_stderr, captures, active_job_id,
                   tqdm_callbacks, log_callbacks, pvars, lvars>>

\* a status view calls get_job_progress_info(job_id) for a job of the store
Trk_CallInfo ==
    /\ Cardinality(Calls("get_job_progress_info")) < MaxReads
    /\ \E job_id \in DOMAIN jobs :
          threads' = Append(threads, TrackerCall("get_job_progress_info", job_id, "check"))
    /\ UNCHANGED <<qvars, now, uuid_issued, last_call, tvars, pvars, lock, snapshot, capture_locks>>

\* if job_id != self.active_job_id: return {"active": False}
Info_Check(t) ==
    /\ In(t, "get_job_progress_info", "check")
    /\ IF Some(threads[t].job_id) # active_job_id
       THEN /\ last_call' = [op |-> "get_job_progress_info",
                             job_id |-> Some(threads[t].job_id),
                             ret |-> [active |-> FALSE]]
            /\ Goto(t, "done")
       ELSE /\ Goto(t, "get_current_progress")
            /\ UNCHANGED last_call
    /\ UNCHANGED <<qvars, now, uuid_issued, tvars, pvars, lock, snapshot, capture_locks>>

\* progress_info = self.tqdm_capture.get_current_progress()
Info_Progress(t) ==
    /\ In(t, "get_job_progress_info", "get_current_progress")
    /\ threads' = [threads EXCEPT ![t].args = <<current_progress>>,
                                  ![t].pc = "get_recent_logs"]
    /\ UNCHANGED <<qvars, now, uuid_issued, last_call, tvars, pvars, lock, snapshot, capture_locks>>

\* recent_logs = self.log_capture.get_recent_logs(20)
Info_Logs(t) ==
    /\ In(t, "get_job_progress_info", "get_recent_logs")
    /\ threads' = [threads EXCEPT ![t].args = Append(@, get_recent_logs(Some(20))),
                                  ![t].pc = "return"]
    /\ UNCHANGED <<qvars, now, uuid_issued, last_call, tvars, pvars, lock, snapshot, capture_locks>>

\* return {"active": True, ..., "tqdm_output": get_recent_output(10)}
Info_Return(t) ==
    /\ In(t, "get_job_progress_info", "return")
    /\ last_call' = [op |-> "get_job_progress_info", job_id |-> Some(threads[t].job_id),
                     ret |-> [active      |-> TRUE,
                              progress    |-> ProgressEntry(threads[t].args[1]),
                              recent_logs |-> threads[t].args[2],
                              tqdm_output |-> get_recent_output(10)]]
    /\ Goto(t, "done")
    /\ UNCHANGED <<qvars, now, uuid_issued, tvars, pvars, lock, snapshot, capture_locks>>

NextTracking ==
    \/ Admit(MaxTrackings, {"single"})
    \/ StartNext
    \/ Trk_CallTrack
    \/ \E t \in 1..(MaxTrackings + MaxReads) :
          \/ Trk_SetActive(t)
          \/ Trk_ClearOutput(t)
          \/ Trk_ClearLogs(t)
          \/ Trk_AddCallback(t)
          \/ Info_Check(t)
          \/ Info_Progress(t)
          \/ Info_Logs(t)
          \/ Info_Return(t)
    \/ Trk_Log
    \/ Trk_Progress
    \/ Trk_CallInfo

SpecTracking == Init /\ [][NextTracking]_vars

----------------------------------------------------------------------------
(* SpecLockOrder: once a job is tracked, threads call the queue manager,   *)
(* update_progress, add_log_line and get_job_progress_info at the same     *)
(* time; every `with self.lock` is a step of its own, for the lock of the  *)
(* queue manager and for the locks of the two captures                     *)

\* the lock of the tqdm capture ("tqdm") or of the log capture ("log") is free
Free(which) == capture_locks[which] = None

\* with self.lock of a capture: thread t has it
Take(t, which) == capture_locks' = [capture_locks EXCEPT ![which] = Some(t)]

\* the end of the with block of a capture
GiveBack(which) == capture_locks' = [capture_locks EXCEPT ![which] = None]

\* parse_tqdm_line of the progress line the task writes
ParsedLine == parse_tqdm_line(LINE_PCT)[1]

\* the task of the tracked job writes a line: update_progress or add_log_line
Ord_CallWorker ==
    /\ Len(threads) < MaxThreads
    /\ captures # <<>>
    /\ \E op \in {"update_progress", "add_log_line"} :
          threads' = Append(threads, [op |-> op, job_id |-> 0, args |-> <<1>>,
                                      pc |-> "with_lock"])
    /\ UNCHANGED <<qvars, now, uuid_issued, last_call, tvars, pvars, lock, snapshot,
                   capture_locks>>

\* with self.lock in update_progress and in add_log_line
Ord_TakeCapture(t) ==
    /\ \E which \in {"tqdm", "log"} :
          /\ In(t, IF which = "tqdm" THEN "update_progress" ELSE "add_log_line", "with_lock")
          /\ Free(which)
          /\ Take(t, which)
    /\ Goto(t, "store")
    /\ UNCHANGED <<qvars, now, uuid_issued, last_call, tvars, pvars, lock, snapshot>>

\* update_progress: self.current_progress = progress_info; captured_output.append(...)
Ord_StoreProgress(t) ==
    /\ In(t, "update_progress", "store")
    /\ current_progress' = ParsedLine
    /\ captured_output' = Append(captured_output, Stamped(now, LINE_PCT))
    /\ Goto(t, "callback")
    /\ UNCHANGED <<qvars, now, uuid_issued, last_call, log_lines, lines_written,
                   sys_stdout, sys_stderr, captures, active_job_id, tqdm_callbacks,
                   log_callbacks, notified, call_raised, pvars, lock, snapshot,
                   capture_locks>>

\* the next callback, update_queue_progress: `with self.lock` of
\* update_job_progress, the lock of the tqdm capture still held
Ord_CallbackAcquire(t) ==
    /\ In(t, "update_progress", "callback")
    /\ threads[t].args[1] <= Len(tqdm_callbacks)
    /\ Acquirable
    /\ lock' = Some(t)
    /\ Goto(t, "update")
    /\ UNCHANGED <<qvars, now, uuid_issued, last_call, tvars, pvars, snapshot,
                   capture_locks>>

\* a callback that returns with the lock of the queue manager still held
Ord_CallbackUpdate_KeepLock(t) ==
    /\ In(t, "update_progress", "update")
    /\ jobs' = UpdatedJobs(jobs, tqdm_callbacks[threads[t].args[1]].job_id,
                           ParsedLine.percentage, ParsedLine.description)
    /\ threads' = [threads EXCEPT ![t].args = <<@[1] + 1>>, ![t].pc = "callback"]
    /\ UNCHANGED <<queue_order, active_job, job_history, avg_processing_times, now,
                   uuid_issued, last_call, tvars, pvars, lock, snapshot, capture_locks>>

\* update_job_progress inside its with block, and the end of the block
Ord_CallbackUpdate(t) ==
    /\ In(t, "update_progress", "update")
    /\ jobs' = UpdatedJobs(jobs, tqdm_callbacks[threads[t].args[1]].job_id,
                           ParsedLine.percentage, ParsedLine.description)
    /\ lock' = None
    /\ threads' = [threads EXCEPT ![t].args = <<@[1] + 1>>, ![t].pc = "callback"]
    /\ UNCHANGED <<queue_order, active_job, job_history, avg_processing_times, now,
                   uuid_issued, last_call, tvars, pvars, snapshot, capture_locks>>

\* update_progress after the last callback: the end of its with block
Ord_ReleaseProgress(t) ==
    /\ In(t, "update_progress", "callback")
    /\ threads[t].args[1] > Len(tqdm_callbacks)
    /\ GiveBack("tqdm")
    /\ Goto(t, "done")
    /\ UNCHANGED <<qvars, now, uuid_issued, last_call, tvars, pvars, lock, snapshot>>

\* add_log_line inside its with block (no callback is registered), and the
\* end of the block
Ord_StoreLog(t) ==
    /\ In(t, "add_log_line", "store")
    /\ log_lines' = LogAfterAdd(log_lines, Stamped(now, LINE_WARN))
    /\ GiveBack("log")
    /\ Goto(t, "done")
    /\ UNCHANGED <<qvars, now, uuid_issued, last_call, lines_written, sys_stdout,
                   sys_stderr, captures, active_job_id, current_progress,
                   captured_output, tqdm_callbacks, log_callbacks, notified,
                   call_raised, pvars, lock, snapshot>>

\* a status view calls get_job_progress_info(job_id) for a job of the store
Ord_CallInfo ==
    /\ Len(threads) < MaxThreads
    /\ captures # <<>>
    /\ \E job_id \in DOMAIN jobs :
          threads' = Append(threads, TrackerCall("get_job_progress_info", job_id, "check"))
    /\ UNCHANGED <<qvars, now, uuid_issued, last_call, tvars, pvars, lock, snapshot,
                   capture_locks>>

\* if job_id != self.active_job_id: return {"active": False}
Ord_InfoCheck(t) ==
    /\ In(t, "get_job_progress_info", "check")
    /\ IF Some(threads[t].job_id) # active_job_id
       THEN /\ last_call' = [op |-> "get_job_progress_info",
                             job_id |-> Some(threads[t].job_id),
                             ret |-> [active |-> FALSE]]
            /\ Goto(t, "done")
       ELSE /\ Goto(t, "take")
            /\ UNCHANGED last_call
    /\ UNCHANGED <<qvars, now, uuid_issued, tvars, pvars, lock, snapshot, capture_locks>>

\* the lock of the n-th read of get_job_progress_info: get_current_progress,
\* get_recent_logs(20), get_recent_output(10)
InfoLock(n) == IF n = 2 THEN "log" ELSE "tqdm"

\* with self.lock of the read the call has come to
Ord_InfoTake(t) ==
    /\ In(t, "get_job_progress_info", "take")
    /\ Free(InfoLock(Len(threads[t].args) + 1))
    /\ Take(t, InfoLock(Len(threads[t].args) + 1))
    /\ Goto(t, "read")
    /\ UNCHANGED <<qvars, now, uuid_issued, last_call, tvars, pvars, lock, snapshot>>

\* the read inside its with block and the end of the block; after the third
\* read the call returns the dictionary
Ord_InfoRead(t) ==
    /\ In(t, "get_job_progress_info", "read")
    /\ GiveBack(InfoLock(Len(threads[t].args) + 1))
    /\ IF Len(threads[t].args) = 0
       THEN /\ threads' = [threads EXCEPT ![t].args = <<current_progress>>,
                                          ![t].pc = "take"]
            /\ UNCHANGED last_call
       ELSE IF Len(threads[t].args) = 1
       THEN /\ threads' = [threads EXCEPT ![t].args = Append(@, get_recent_logs(Some(20))),
                                          ![t].pc = "take"]
            /\ UNCHANGED last_call
       ELSE /\ last_call' = [op |-> "get_job_progress_info",
                             job_id |-> Some(threads[t].job_id),
                             ret |-> [active      |-> TRUE,
                                      progress    |-> ProgressEntry(threads[t].args[1]),
                                      recent_logs |-> threads[t].args[2],
                                      tqdm_output |-> get_recent_output(10)]]
            /\ Goto(t, "done")
    /\ UNCHANGED <<qvars, now, uuid_issued, tvars, pvars, lock, snapshot>>

\* the next statement of thread t
Ord_Step(t) ==
    \/ Lock_Acquire(t)
    \/ Lock_AddJobStore(t)
    \/ Lock_AddJobAppend(t)
    \/ Lock_NotFound(t)
    \/ Lock_StartStatus(t)
    \/ Lock_StartActive(t)
    \/ Lock_StartRemove(t)
    \/ Lock_Update(t)
    \/ Lock_CompleteStatus(t)
    \/ Lock_CompleteHistory(t)
    \/ Lock_CompleteActive(t)
    \/ Lock_CompleteDel(t)
    \/ Lock_Read(t)
    \/ Ord_TakeCapture(t)
    \/ Ord_StoreProgress(t)
    \/ Ord_CallbackAcquire(t)
    \/ Ord_CallbackUpdate(t)
    \/ Ord_ReleaseProgress(t)
    \/ Ord_StoreLog(t)
    \/ Ord_InfoCheck(t)
    \/ Ord_InfoTake(t)
    \/ Ord_InfoRead(t)

NextLockOrder ==
    \/ (threads = <<>> /\ Admit(MaxTracked, {"single"}))
    \/ (threads = <<>> /\ StartNext)
    \/ (threads = <<>> /\ TrackJob(MaxTracked))
    \/ (captures # <<>> /\ Lock_CallAddJob)
    \/ (captures # <<>> /\ Lock_Call)
    \/ Ord_CallWorker
    \/ Ord_CallInfo
    \/ \E t \in 1..MaxThreads : Ord_Step(t)

SpecLockOrder == Init /\ [][NextLockOrder]_vars

\* every thread that can run its next statement runs it in the end
SpecLockOrderFair == SpecLockOrder /\ \A t \in 1..MaxThreads : WF_vars(Ord_Step(t))

----------------------------------------------------------------------------
(* SpecBlocks: generate is called while an earlier call is still in its    *)
(* with-block, so the blocks of two jobs are open at the same time and end *)
(* in either order; the tasks write to the standard output                 *)

\* with progress_tracker.start_job_tracking(job_id): the call, made while
\* other blocks may be open
TrackOverlapping(n) ==
    /\ \E job_id \in Ids(n) :
          /\ job_id \in DOMAIN jobs
          /\ jobs[job_id].status = "processing"
          /\ \A k \in 1..Len(captures) : captures[k].job_id # job_id
          /\ start_job_tracking(job_id)
    /\ UNCHANGED <<qvars, now, uuid_issued, last_call, lines_written, sys_stdout,
                   sys_stderr, nvars>>

NextBlocks ==
    \/ Admit(MaxTrackings, {"single"})
    \/ StartNext
    \/ TrackOverlapping(MaxTrackings)
    \/ EnterBlock
    \/ WriteOut
    \/ LeaveBlock

SpecBlocks == Init /\ [][NextBlocks]_vars

----------------------------------------------------------------------------
(* SpecViews: the refresh timer asks for the three status views while a    *)
(* job is admitted, started, tracked and written for; each read of the     *)
(* queue manager or of the progress tracker behind a view returns or       *)
(* raises                                                                  *)

\* the calls of the views on the queue manager and on the progress tracker
ViewReads ==
    {"queue:get_queue_status", "progress:get_queue_status", "progress:get_job_progress_info",
     "logs:get_queue_status", "logs:get_job_progress_info"}

\* a call that returns ret
Returned(ret) == [ret |-> Some(ret), exc |-> None]

\* a call that raises an Exception out of the read `read`
Raised(read) == [ret |-> None, exc |-> Some(read)]

\* the view put in the place of a view whose body raised e
ErrorView(view, e) == [view |-> view, error |-> TRUE, shows |-> e]

\* a view rendered from what was read
View(view, shows) == [view |-> view, error |-> FALSE, shows |-> shows]

\* a view whose body is not inside try/except
TryExcept_Propagate(view, body) == body

\* try: ... except Exception as e: return the error view
TryExcept(view, body) ==
    IF body.exc # None THEN Returned(ErrorView(view, body.exc[1])) ELSE body

\* ui_components.get_queue_status
ui_get_queue_status(raising) ==
    TryExcept("queue",
              IF "queue:get_queue_status" \in raising
              THEN Raised("queue:get_queue_status")
              ELSE Returned(View("queue", get_queue_status)))

\* ui_components.get_progress_status(job_id=None)
get_progress_status(raising) ==
    TryExcept("progress",
              IF "progress:get_queue_status" \in raising
              THEN Raised("progress:get_queue_status")
              ELSE IF get_queue_status.active_job = None
              THEN Returned(View("progress", [active |-> FALSE]))
              ELSE IF "progress:get_job_progress_info" \in raising
              THEN Raised("progress:get_job_progress_info")
              ELSE Returned(View("progress",
                                 get_job_progress_info(get_queue_status.active_job[1].job_id))))

\* "No active job logs"
NoLogs == View("logs", <<<<"N", "o", " ", "a", "c", "t", "i", "v", "e", " ", "j", "o", "b", " ", "l", "o", "g", "s">>>>)

\* ui_components.get_live_logs(job_id=None)
get_live_logs(raising) ==
    TryExcept("logs",
              IF "logs:get_queue_status" \in raising
              THEN Raised("logs:get_queue_status")
              ELSE IF get_queue_status.active_job = None
              THEN Returned(NoLogs)
              ELSE IF "logs:get_job_progress_info" \in raising
              THEN Raised("logs:get_job_progress_info")
              ELSE LET progress_info ==
                           get_job_progress_info(get_queue_status.active_job[1].job_id)
                   IN  IF progress_info.active
                       THEN Returned(View("logs", progress_info.recent_logs))
                       ELSE Returned(NoLogs))

\* update_status_components: the tuple of the three views, each made in turn;
\* an error one of them lets out ends the refresh
update_status_components(raising) ==
    LET queue == ui_get_queue_status(raising)
        progress == get_progress_status(raising)
        logs == get_live_logs(raising)
    IN  IF queue.exc # None THEN queue
        ELSE IF progress.exc # None THEN progress
        ELSE IF logs.exc # None THEN logs
        ELSE Returned(<<queue.ret[1], progress.ret[1], logs.ret[1]>>)

\* refresh_timer.tick: the reads in `raising` raise, the others return
Refresh ==
    /\ \E raising \in SUBSET ViewReads :
          last_call' = [op |-> "update_status_components", job_id |-> None,
                        raising |-> raising,
                        ret |-> update_status_components(raising).ret,
                        exc |-> update_status_components(raising).exc]
    /\ UNCHANGED <<qvars, now, uuid_issued, cvars>>

NextViews ==
    \/ Admit(MaxTracked, {"single"})
    \/ StartNext
    \/ TrackJob(MaxTracked)
    \/ ProgressCall
    \/ LogCall
    \/ Refresh

SpecViews == Init /\ [][NextViews]_vars

----------------------------------------------------------------------------
(* SpecParse: parse_tqdm_line is given the progress lines tqdm writes for  *)
(* a percentage, a step count and an elapsed time                          *)

RECURSIVE Dec(_)
\* str(n) of a natural number
Dec(n) == IF n < 10 THEN <<DigitChars[n + 1]>> ELSE Dec(n \div 10) \o <<DigitChars[(n % 10) + 1]>>

\* f"{n:02d}"
Pad2(n) == IF n < 10 THEN <<"0">> \o Dec(n) ELSE Dec(n)

\* what tqdm writes before the percentage: nothing, the padding of a short
\* percentage, a description
LinePrefixes == {<<>>, <<" ">>, <<"S", "a", "m", "p", "l", "i", "n", "g", ":", " ", " ">>}
\* percentages written
LinePercentages == {0, 7, 45, 100}
\* (current, total) written
LineSteps == {<<0, 30>>, <<12, 30>>, <<30, 30>>}
\* elapsed times written: minutes and seconds, or hours, minutes and seconds
LineElapsed ==
    {[h |-> None, m |-> 0, s |-> 12], [h |-> None, m |-> 1, s |-> 5],
     [h |-> Some(1), m |-> 2, s |-> 3], [h |-> Some(12), m |-> 0, s |-> 59]}

\* MM:SS, or HH:MM:SS when there are hours
TimeText(e) ==
    IF e.h = None THEN Pad2(e.m) \o <<":">> \o Pad2(e.s)
    ELSE Pad2(e.h[1]) \o <<":">> \o Pad2(e.m) \o <<":">> \o Pad2(e.s)

\* the progress line for what is written: prefix, percentage, steps, elapsed
RichLine(w) ==
    w.prefix \o Dec(w.percentage) \o <<"%", "|", "█", "█", "█", " ", "|", " ">>
             \o Dec(w.steps[1]) \o <<"/">> \o Dec(w.steps[2]) \o <<" ", "[">>
             \o TimeText(w.elapsed)
             \o <<"<", "0", "0", ":", "1", "8", ",", " ", "2", ".", "5", "0", "i", "t", "/", "s", "]">>

\* what the lines of the run have written in them
Writings ==
    [prefix : LinePrefixes, percentage : LinePercentages, steps : LineSteps,
     elapsed : LineElapsed]

\* tqdm_capture.parse_tqdm_line(line)
ParseLine ==
    /\ \E w \in Writings :
          last_call' = [op |-> "parse_tqdm_line", job_id |-> None, written |-> w,
                        line |-> RichLine(w), ret |-> parse_tqdm_line(RichLine(w))]
    /\ UNCHANGED <<qvars, now, uuid_issued, cvars>>

NextParse == ParseLine

SpecParse == Init /\ [][NextParse]_vars

----------------------------------------------------------------------------
(* SpecBare: parse_tqdm_line is given lines with a number and "%", whole   *)
(* or with a decimal point, that the rich pattern does not match           *)

\* what stands before the number and after the "%"
BarePrefixes == {<<>>, <<" ", " ">>, <<"P", "r", "o", "g", "r", "e", "s", "s", ":", " ">>, <<"e", "p", "o", "c", "h", " ", "2", ":", " ">>}
BareSuffixes == {<<>>, <<" ", "d", "o", "n", "e">>}
\* the whole part and the digits after the point (None: no point)
BareWholes == {0, 7, 45, 100, 150}
BareFractions == {None, Some(5), Some(25)}

\* the numeral of what is written
BareNumber(w) ==
    IF w.frac = None THEN Dec(w.whole)
    ELSE Dec(w.whole) \o <<".">> \o Dec(w.frac[1])

\* the line for what is written
BareLine(w) == w.prefix \o BareNumber(w) \o <<"%">> \o w.suffix

BareWritings ==
    [prefix : BarePrefixes, whole : BareWholes, frac : BareFractions,
     suffix : BareSuffixes]

\* tqdm_capture.parse_tqdm_line(line)
ParseBare ==
    /\ \E w \in BareWritings :
          last_call' = [op |-> "parse_bare", job_id |-> None, written |-> w,
                        line |-> BareLine(w), ret |-> parse_tqdm_line(BareLine(w))]
    /\ UNCHANGED <<qvars, now, uuid_issued, cvars>>

NextBare == ParseBare

SpecBare == Init /\ [][NextBare]_vars

----------------------------------------------------------------------------
(* SpecLines: the task of a tracked job writes texts to its standard       *)
(* output while its block is open; the text of each write is noted         *)

\* sys.stdout.write(text) in the block
LineWrite ==
    /\ lines_written < MaxWrites
    /\ InBlock
    /\ \E text \in LineTexts :
          \E cs \in {StreamWrite(Captured, sys_stdout, text, now, tqdm_callbacks)} :
              Assigned([cs EXCEPT !.last_call = [op |-> "write", job_id |-> None,
                                                 text |-> text, ret |-> Some(Len(text))]])
    /\ lines_written' = lines_written + 1
    /\ UNCHANGED <<queue_order, active_job, job_history, avg_processing_times, now,
                   uuid_issued, sys_stdout, sys_stderr, captures, active_job_id,
                   tqdm_callbacks, log_callbacks, pvars, lvars>>

NextLines ==
    \/ Admit(MaxTracked, {"single"})
    \/ StartNext
    \/ TrackJob(MaxTracked)
    \/ EnterBlock
    \/ LineWrite
    \/ LeaveBlock

SpecLines == Init /\ [][NextLines]_vars

----------------------------------------------------------------------------
(* Properties *)

\* live jobs by status
QueuedIds == {job_id \in DOMAIN jobs : jobs[job_id].status = "queued"}
ProcessingIds == {job_id \in DOMAIN jobs : jobs[job_id].status = "processing"}

\* the job ids of a sequence of records
IdsOf(records) == {records[i].job_id : i \in 1..Len(records)}

\* the step ends a call of method op on job_id
CalledOn(op, job_id) == last_call'.op = op /\ last_call'.job_id = Some(job_id)

\* C1: with a caller that starts a job only when no job is active, at most one
\* live job has status processing in every reachable state.
C1_AtMostOneProcessing == Cardinality(ProcessingIds) <= 1

\* C1 witness: one job is being processed while another waits in the queue.
C1_Witness ==
    /\ Cardinality(ProcessingIds) = 1
    /\ QueuedIds # {}
    /\ active_job # None /\ active_job[1] \in ProcessingIds

\* C2: the status of a live record only changes queued -> processing, a record
\* leaves the live store (to completed or failed) only from processing, and
\* start_job on a job that is already processing leaves its record as it was.
C2_LegalTransitions ==
    [][\A job_id \in DOMAIN jobs :
          /\ job_id \in DOMAIN jobs' =>
                \/ jobs'[job_id].status = jobs[job_id].status
                \/ jobs[job_id].status = "queued" /\ jobs'[job_id].status = "processing"
          /\ job_id \notin DOMAIN jobs' => jobs[job_id].status = "processing"
          /\ (jobs[job_id].status = "processing" /\ start_job(job_id)) =>
                jobs'[job_id] = jobs[job_id]]_vars

\* C3: after Admit and Start calls the queued jobs have the positions 1..n, each
\* once, in the order of admission (ids are numbered in that order).
C3_PositionsGapFree ==
    /\ \A job_id \in QueuedIds : get_job_position(job_id) # None
    /\ {get_job_position(job_id)[1] : job_id \in QueuedIds} = 1..Cardinality(QueuedIds)
    /\ \A j, k \in QueuedIds :
          j < k => get_job_position(j)[1] < get_job_position(k)[1]

\* C3 witness: two jobs wait, the one admitted between them was started.
C3_Witness ==
    /\ QueuedIds = {1, 3}
    /\ ProcessingIds = {2}
    /\ get_job_position(3) = Some(2)

\* C4: get_job_position returns None for every id that is not a live queued job.
C4_PositionNoneUnlessQueued ==
    \A job_id \in Ids(MaxJobs) :
        job_id \notin QueuedIds => get_job_position(job_id) = None

\* C5: complete_job on a live job takes the id out of the live store, out of the
\* active and queued views of get_queue_status and off the active marker, and
\* leaves the finished record as the newest entry of the history.
C5_CompleteRetires ==
    [][\A job_id \in DOMAIN jobs, c \in CompleteInputs :
          (CalledOn("complete_job", job_id) /\ complete_job(job_id, c[1], c[2])) =>
              /\ job_id \notin DOMAIN jobs'
              /\ active_job' # Some(job_id)
              /\ get_queue_status'.active_job # None =>
                     get_queue_status'.active_job[1].job_id # job_id
              /\ job_id \notin IdsOf(get_queue_status'.queue_jobs)
              /\ Len(job_history') = Len(job_history) + 1
              /\ job_history'[Len(job_history')].job_id = job_id
              /\ job_history'[Len(job_history')].status \in {"completed", "failed"}]_vars

\* C5 witness: the job that was being processed has just been completed.
C5_Witness ==
    /\ last_call.op = "complete_job"
    /\ job_history # <<>>
    /\ job_history[Len(job_history)].job_id = last_call.job_id[1]
    /\ job_history[Len(job_history)].started_at # None
    /\ active_job = None

\* C6: complete_job on an id whose record is already in the history changes
\* nothing, whatever the success flag and error message.
C6_SecondCompleteNoOp ==
    [][\A job_id \in IdsOf(job_history), c \in CompleteInputs :
          (CalledOn("complete_job", job_id) /\ complete_job(job_id, c[1], c[2]))
              => UNCHANGED qvars]_vars

\* C6 witness: complete_job was called on a job after a later job had been
\* retired behind it, and the history still holds each record once.
C6_Witness ==
    /\ last_call.op = "complete_job"
    /\ Len(job_history) = 2
    /\ job_history[1].job_id = last_call.job_id[1]
    /\ job_history[2].job_id # last_call.job_id[1]

\* C7: the record retired by complete_job has progress 1.0 on success and the
\* progress it had just before the call on failure.
C7_CompleteProgress ==
    [][\A job_id \in DOMAIN jobs, c \in CompleteInputs :
          (CalledOn("complete_job", job_id) /\ complete_job(job_id, c[1], c[2])) =>
              /\ job_history'[Len(job_history')].job_id = job_id
              /\ job_history'[Len(job_history')].progress =
                     IF c[1] THEN 100 ELSE jobs[job_id].progress]_vars

\* C7 witness: one job failed at progress 0.3 and one succeeded.
C7_Witness ==
    \E i, k \in 1..Len(job_history) :
        /\ job_history[i].status = "failed" /\ job_history[i].progress = 30
        /\ job_history[k].status = "completed" /\ job_history[k].progress = 100

\* C8: update_job_progress on an id that is not in the live store returns
\* normally and changes nothing.
C8_UpdateUnknownNoOp ==
    [][\A job_id \in Ids(MaxJobs) \ DOMAIN jobs, u \in ProgressInputs :
          (CalledOn("update_job_progress", job_id)
           /\ update_job_progress(job_id, u[1], u[2])) =>
              /\ UNCHANGED qvars
              /\ last_call'.ret = None]_vars

\* C8 witness: the last call was an update for a job that is already retired.
C8_Witness ==
    /\ last_call.op = "update_job_progress"
    /\ last_call.job_id[1] \notin DOMAIN jobs
    /\ last_call.job_id[1] \in IdsOf(job_history)

\* C9: complete_job with success on a started job of a known kind sets that
\* kind's average to 0.7 * old + 0.3 * duration and leaves the other kind's;
\* any other complete_job leaves the table as it was.
C9_RunningAverage ==
    [][\A job_id \in DOMAIN jobs, c \in CompleteInputs :
          (CalledOn("complete_job", job_id) /\ complete_job(job_id, c[1], c[2])) =>
              LET job == jobs[job_id]
              IN  IF c[1] /\ job.started_at # None
                     /\ job.job_type \in DOMAIN avg_processing_times
                  THEN /\ DOMAIN avg_processing_times' = DOMAIN avg_processing_times
                       /\ 10 * avg_processing_times'[job.job_type] =
                              7 * avg_processing_times[job.job_type]
                              + 3 * (now - job.started_at[1]) * Scale
                       /\ \A t \in (DOMAIN avg_processing_times) \ {job.job_type} :
                              avg_processing_times'[t] = avg_processing_times[t]
                  ELSE avg_processing_times' = avg_processing_times]_vars

\* C9 witness: a "single" job that ran 100 s was completed: 120 became 114.
C9_Witness ==
    /\ avg_processing_times["single"] = 114 * Scale
    /\ avg_processing_times["multi"] = 180 * Scale
    /\ \E i \in 1..Len(job_history) :
          /\ job_history[i].status = "completed"
          /\ job_history[i].completed_at[1] - job_history[i].started_at[1] = 100

\* C10: start_job on an id not in the live store returns False and changes
\* nothing; on a live queued job it returns True, sets status processing and
\* started_at, marks the id active and takes it out of the queue order, the
\* other ids keeping their order.
C10_Start ==
    [][\A job_id \in Ids(MaxQueued) :
          (CalledOn("start_job", job_id) /\ start_job(job_id)) =>
              /\ job_id \notin DOMAIN jobs =>
                    /\ last_call'.ret = Some(FALSE)
                    /\ UNCHANGED qvars
              /\ (job_id \in DOMAIN jobs /\ jobs[job_id].status = "queued") =>
                    /\ last_call'.ret = Some(TRUE)
                    /\ jobs'[job_id].status = "processing"
                    /\ jobs'[job_id].started_at = Some(now)
                    /\ active_job' = Some(job_id)
                    /\ LET Other(x) == x # job_id
                       IN  queue_order' = SelectSeq(queue_order, Other)
                    /\ \A other \in (DOMAIN jobs) \ {job_id} :
                          other \in DOMAIN jobs' /\ jobs'[other] = jobs[other]]_vars

\* C10 witness: the second of three queued jobs was started after the clock
\* had moved; the first and the third keep their order.
C10_Witness ==
    /\ last_call = [op |-> "start_job", job_id |-> Some(2), ret |-> Some(TRUE)]
    /\ queue_order = <<1, 3>>
    /\ jobs[2].started_at = Some(100)
    /\ jobs[2].created_at = 0

----------------------------------------------------------------------------
(* Wait-time estimate *)

RECURSIVE SumEstimated(_, _, _)
\* sum of the estimated_duration of qjobs[from..to]
SumEstimated(qjobs, from, to) ==
    IF from > to THEN 0
    ELSE EstimatedOrDefault(qjobs[from]) + SumEstimated(qjobs, from + 1, to)

\* what is left of the active job: its estimated_duration while it reports
\* no progress, nothing at progress 1.0, else elapsed * (1 - progress) / progress
RemainingOfActive ==
    LET job == active_job_info[1]
    IN  IF job.started_at = None \/ job.progress <= 0
        THEN Rat(EstimatedOrDefault(job), 1)
        ELSE IF job.progress >= 100 THEN Rat(0, 1)
        ELSE Rat((now - job.started_at[1]) * Scale * (100 - job.progress), job.progress)

\* the wait of the k-th queued job as the claim defines it: the first waits
\* for the active job, a later one for that and for all queued jobs ahead of it
OwnWait(k) == RatAdd(RemainingOfActive, Rat(SumEstimated(queue_jobs, 1, k - 1), 1))

RECURSIVE SumOwnWaits(_)
SumOwnWaits(k) == IF k = 0 THEN Rat(0, 1) ELSE RatAdd(OwnWait(k), SumOwnWaits(k - 1))

----------------------------------------------------------------------------
(* Log buffer *)

\* C12: the log buffer never holds more than 100 lines; a line added to a full
\* buffer pushes out the oldest one, every other line keeps its place in the
\* order, and the new line is the last.
C12_LogBounded ==
    /\ [](Len(log_lines) <= 100)
    /\ [][lines_written' = lines_written + 1 =>
            LET n == Len(log_lines)
                kept == IF n = 100 THEN SubSeq(log_lines, 2, n) ELSE log_lines
            IN  log_lines' = kept \o <<Stamped(now, LineNo(lines_written'))>>]_vars

\* C12 witness: 102 lines were logged into a buffer that was never cleared;
\* it holds lines 3 to 102.
C12_Witness ==
    /\ lines_written = 102
    /\ Len(log_lines) = 100
    /\ log_lines[1] = Stamped(now, LineNo(3))
    /\ log_lines[100] = Stamped(now, LineNo(102))

----------------------------------------------------------------------------
(* Stream capture *)

\* C13: with one capture block at a time, whenever no block is open (before
\* the block, and after it ended by return or by an error) sys.stdout and
\* sys.stderr are the streams that were installed before the block was
\* entered; while the block is open they are its two CaptureStream objects
\* around those streams.
C13_StreamsRestored ==
    LET before_stdout == [base |-> "stdout", wrappers |-> <<>>]
        before_stderr == [base |-> "stderr", wrappers |-> <<>>]
    IN  /\ ~InBlock => sys_stdout = before_stdout /\ sys_stderr = before_stderr
        /\ \A k \in 1..Len(captures) :
              captures[k].pos = "entered" =>
                  /\ sys_stdout # before_stdout /\ Original(sys_stdout) = before_stdout
                  /\ sys_stderr # before_stderr /\ Original(sys_stderr) = before_stderr

\* C13 witness: a block in which the task wrote a line was left by an error
C13_Witness ==
    /\ \E k \in 1..Len(captures) : captures[k].pos = "raised"
    /\ lines_written > 0
    /\ sys_stdout.wrappers = <<>> /\ sys_stdout.base = "stdout"
    /\ sys_stderr.wrappers = <<>> /\ sys_stderr.base = "stderr"

----------------------------------------------------------------------------
(* Job history *)

\* C14: job_history never holds more than 100 records; a completion appends the
\* retired record at the end, and when the history is full the record that was
\* completed first is dropped and all others keep their order.
C14_HistoryBounded ==
    /\ [](Len(job_history) <= 100)
    /\ [][\A job_id \in DOMAIN jobs :
             (CalledOn("complete_job", job_id) /\ complete_job(job_id, TRUE, None)) =>
                 LET n == Len(job_history)
                     kept == IF n = 100 THEN SubSeq(job_history, 2, n) ELSE job_history
                 IN  /\ Len(job_history') = Len(kept) + 1
                     /\ SubSeq(job_history', 1, Len(kept)) = kept
                     /\ job_history'[Len(kept) + 1].job_id = job_id]_vars

\* C14 witness: 102 jobs were completed; the history holds the jobs 3 to 102.
C14_Witness ==
    /\ Len(job_history) = 100
    /\ job_history[1].job_id = 3
    /\ job_history[100].job_id = 102

----------------------------------------------------------------------------
(* Purge *)

\* C15: cleanup_old_jobs removes no queued or processing job and changes none
\* of their records, leaves queue_order and active_job as they are, and keeps
\* of the history, in order, exactly the records completed later than the
\* cutoff (it removes those completed at or before it).
C15_PurgeOnlyOldHistory ==
    [][\A max_age_hours \in PurgeAges :
          (last_call'.op = "cleanup_old_jobs" /\ cleanup_old_jobs(max_age_hours)) =>
              LET cutoff == now - 3600 * max_age_hours
                  Later(job) == job.completed_at[1] > cutoff
              IN  /\ \A job_id \in DOMAIN jobs :
                        jobs[job_id].status \in {"queued", "processing"} =>
                            job_id \in DOMAIN jobs' /\ jobs'[job_id] = jobs[job_id]
                  /\ queue_order' = queue_order
                  /\ active_job' = active_job
                  /\ job_history' = SelectSeq(job_history, Later)]_vars

\* C15 witness: a purge with a cutoff one hour back has removed the record
\* completed at the cutoff and kept the one completed after it.
C15_Witness ==
    /\ last_call.op = "cleanup_old_jobs"
    /\ now = 3600
    /\ Len(job_history) = 1
    /\ job_history[1].completed_at = Some(3600)
    /\ job_history[1].job_id = 2
    /\ uuid_issued >= 2

----------------------------------------------------------------------------
(* Retired records *)

\* C16: once a job is retired to the history, a later update_job_progress,
\* start_job or complete_job with its id leaves the retired record, and the
\* whole history, as it was.
C16_RetiredFrozen ==
    [][\A i \in 1..Len(job_history) :
          LET job_id == job_history[i].job_id
              called ==
                  \/ CalledOn("start_job", job_id)
                  \/ CalledOn("update_job_progress", job_id)
                  \/ CalledOn("complete_job", job_id)
          IN  called => /\ Len(job_history') = Len(job_history)
                        /\ job_history'[i] = job_history[i]]_vars

\* C16 witness: start_job was called with the id of a failed job of the history
C16_Witness ==
    /\ last_call.op = "start_job"
    /\ last_call.ret = Some(FALSE)
    /\ \E i \in 1..Len(job_history) :
          /\ job_history[i].job_id = last_call.job_id[1]
          /\ job_history[i].status = "failed"

----------------------------------------------------------------------------
(* Estimated duration *)

\* C17: a job enters the live store with estimated_duration equal to the
\* running average of its kind at that moment (150 s for a kind without one),
\* and every later step leaves that value as it is, in the live record and in
\* the record retired to the history, also when a completion moves the average.
C17_EstimateFixedAtAdmit ==
    [][/\ \A job_id \in (DOMAIN jobs') \ (DOMAIN jobs) :
             LET job_type == jobs'[job_id].job_type
             IN  jobs'[job_id].estimated_duration =
                     Some(IF job_type = "single" THEN avg_processing_times.single
                          ELSE IF job_type = "multi" THEN avg_processing_times.multi
                          ELSE 150 * Scale)
       /\ \A job_id \in DOMAIN jobs :
             IF job_id \in DOMAIN jobs'
             THEN jobs'[job_id].estimated_duration = jobs[job_id].estimated_duration
             ELSE /\ job_history' # <<>>
                  /\ job_history'[Len(job_history')].job_id = job_id
                  /\ job_history'[Len(job_history')].estimated_duration =
                         jobs[job_id].estimated_duration]_vars

\* C17 witness: a "single" job admitted at the average 120 s is live after the
\* completion of another "single" job has moved the average of its kind.
C17_Witness ==
    /\ avg_processing_times.single # 120 * Scale
    /\ \E job_id \in DOMAIN jobs :
          /\ jobs[job_id].job_type = "single"
          /\ jobs[job_id].estimated_duration = Some(120 * Scale)
    /\ \E i \in 1..Len(job_history) : job_history[i].job_type = "single"

----------------------------------------------------------------------------
(* Status report *)

\* the i-th live queued job in the order of admission (ids are numbered in
\* that order)
NthQueued(i) ==
    CHOOSE job_id \in QueuedIds : Cardinality({x \in QueuedIds : x <= job_id}) = i

\* C18: get_queue_status reports as queue_length the number of live queued
\* jobs, as active_job the record that active_job names (None when no job is
\* active), and as queue_jobs the first min(5, queue_length) live queued jobs
\* in the order of their admission.
C18_StatusReport ==
    LET status == get_queue_status
        n == Cardinality(QueuedIds)
    IN  /\ status.queue_length = n
        /\ status.active_job =
               IF active_job = None THEN None ELSE Some(jobs[active_job[1]])
        /\ Len(status.queue_jobs) = IF n < 5 THEN n ELSE 5
        /\ \A i \in 1..Len(status.queue_jobs) :
               status.queue_jobs[i] = jobs[NthQueued(i)]

\* C18 witness: six jobs wait, one is active, one was failed while it waited:
\* the report lists five of the six.
C18_Witness ==
    /\ Cardinality(QueuedIds) = 6
    /\ active_job # None
    /\ Len(queue_order) = 7
    /\ get_queue_status.queue_length = 6
    /\ Len(get_queue_status.queue_jobs) = 5

----------------------------------------------------------------------------
(* Job ids *)

\* C19: the id add_job returns is in neither the live store nor queue_order
\* at the time of the call, so queue_order never holds an id twice.
C19_AdmitFresh ==
    /\ [](\A i, k \in 1..Len(queue_order) : queue_order[i] = queue_order[k] => i = k)
    /\ [][last_call'.op = "add_job" /\ uuid_issued' = uuid_issued + 1 =>
             /\ last_call'.ret[1] \notin DOMAIN jobs
             /\ ~Contains(queue_order, last_call'.ret[1])]_vars

----------------------------------------------------------------------------
(* Progress range *)

\* C20: in every reachable state the progress of every live job is between 0.0
\* and 1.0, also after an update forwarded from a parsed output line.
C20_ProgressInRange ==
    \A job_id \in DOMAIN jobs :
        jobs[job_id].progress >= 0 /\ jobs[job_id].progress <= 100

----------------------------------------------------------------------------
(* C21 *)

\* the invocations of `trace` are those of every callback of a list of n
\* callbacks, once each and in registration order, by the list `which`, with
\* the one item
NotifiedAll(trace, which, n, item) ==
    /\ [k \in 1..Len(trace) |-> trace[k].index] = [k \in 1..n |-> k]
    /\ \A k \in 1..n : trace[k].callbacks = which /\ trace[k].item = item

\* C21: a call of update_progress or add_log_line raises nothing to its caller
\* whatever its callbacks do, and it invokes every registered callback once, in
\* registration order, also the ones registered after a callback that raised;
\* a line that is no progress line invokes none.
C21_CallbacksIsolated ==
    [][lines_written' # lines_written =>
          /\ call_raised' = None
          /\ IF log_lines' # log_lines
             THEN NotifiedAll(notified', "log", Len(log_callbacks),
                              log_lines'[Len(log_lines')])
             ELSE IF captured_output' # captured_output
             THEN NotifiedAll(notified', "tqdm", Len(tqdm_callbacks), current_progress')
             ELSE notified' = <<>>]_vars

\* update_progress has returned to its caller after its first callback raised
\* and the callbacks registered after it, the tracked job's among them, ran
C21_Witness ==
    /\ Len(tqdm_callbacks) >= 3
    /\ Raises(tqdm_callbacks[1])
    /\ \E i \in 2..Len(tqdm_callbacks) : tqdm_callbacks[i].fn = "update_queue_progress"
    /\ Len(notified) = Len(tqdm_callbacks)
    /\ notified[1].callbacks = "tqdm"
    /\ call_raised = None
    /\ \E job_id \in DOMAIN jobs : jobs[job_id].progress = 7

\* the step of call g that handles the error raised inside the block
FailureHandled(g) ==
    /\ At(g, "except")
    /\ generate_calls'[g].pc = "done"

\* the record of job_id is the newest of the history in the next state, with
\* status failed and the given error_message, and has left the live store
RetiredFailed(job_id, error_message) ==
    /\ job_id \in DOMAIN jobs
    /\ job_id \notin DOMAIN jobs'
    /\ job_history' # <<>>
    /\ LET job == job_history'[Len(job_history')]
       IN  /\ job.job_id = job_id
           /\ job.status = "failed"
           /\ job.completed_at = Some(now)
           /\ job.error_message = error_message

Processing(job_id) == job_id \in DOMAIN jobs /\ jobs[job_id].status = "processing"

\* job_id has left the live store and its record in the history is completed
\* or failed
Retired(job_id) ==
    /\ job_id \notin DOMAIN jobs
    /\ \E i \in 1..Len(job_history) :
          /\ job_history[i].job_id = job_id
          /\ job_history[i].status \in {"completed", "failed"}

\* C23: when every call of generate goes on and its generation task returns or
\* raises, every job that is processing is eventually retired to the history
\* as completed or failed, and an active_job that is set is eventually None
C23_StartedJobsRetire ==
    /\ \A job_id \in 1..MaxGenerate : Processing(job_id) ~> Retired(job_id)
    /\ (active_job # None) ~> (active_job = None)

\* a call of generate has returned, its job is in the history as completed and
\* active_job is None
C23_Witness ==
    \E g \in 1..Len(generate_calls) :
        /\ generate_calls[g].pc = "done"
        /\ generate_calls[g].result = Some("returned")
        /\ Retired(generate_calls[g].job_id)
        /\ \E i \in 1..Len(job_history) :
              /\ job_history[i].job_id = generate_calls[g].job_id
              /\ job_history[i].status = "completed"
              /\ job_history[i].started_at # None
        /\ active_job = None

\* thread t is between the first and the last statement of a method that
\* changes the manager
HalfApplied(t) ==
    /\ threads[t].op # "get_queue_status"
    /\ threads[t].pc \notin {"acquire", "first", "done"}

\* start_job for another job than job_id has been applied in full
StartedAfter(job_id) ==
    \E u \in 1..Len(threads) :
        /\ threads[u].op = "start_job"
        /\ threads[u].pc = "done"
        /\ threads[u].job_id # job_id

\* what a result of get_queue_status shows of the state it is read in
ConsistentSnapshot(status) ==
    /\ status = get_queue_status
    /\ status.active_job # None => status.active_job[1].job_id \notin IdsOf(queue_jobs)
    /\ status.queue_length = Len(queue_jobs)
    /\ \A job_id \in DOMAIN jobs :
          /\ jobs[job_id].status = "queued" => job_id \in IdsOf(queue_jobs)
          /\ jobs[job_id].status = "processing" =>
                 /\ job_id \notin IdsOf(queue_jobs)
                 /\ \/ status.active_job # None /\ status.active_job[1].job_id = job_id
                    \/ StartedAfter(job_id)

\* C24: when threads call add_job, start_job, update_job_progress and
\* complete_job at the same time, get_queue_status puts its result together
\* while no call is between its first and its last statement; the result shows
\* no job both as the active job and among the queued jobs, every live queued
\* job is among the queued jobs, and every live processing job is the active
\* job unless another job has been started since
C24_ConsistentSnapshot ==
    [][\A t \in 1..MaxThreads :
          (In(t, "get_queue_status", "first") /\ threads'[t].pc = "done") =>
              /\ \A u \in 1..Len(threads) : ~HalfApplied(u)
              /\ snapshot' # None
              /\ ConsistentSnapshot(snapshot'[1])]_vars

\* get_queue_status has returned a queued job and no active job while a
\* thread that calls start_job waits for the lock
C24_Witness ==
    /\ snapshot # None
    /\ snapshot[1].queue_length = 1
    /\ snapshot[1].active_job = None
    /\ \E u \in 1..Len(threads) : In(u, "start_job", "acquire")
    /\ \E t \in 1..Len(threads) : In(t, "get_queue_status", "done")

\* C25: every callback that update_progress or add_log_line invokes finds its
\* item stored: the progress value is current_progress, the log line is in
\* log_lines, at the time of the invocation and still when the call returns
\* and the capture state can be read again
C25_StoredBeforeNotified ==
    [][lines_written' # lines_written =>
          \A k \in 1..Len(notified') :
              /\ notified'[k].stored
              /\ IF notified'[k].callbacks = "tqdm"
                 THEN current_progress' = notified'[k].item
                 ELSE Contains(log_lines', notified'[k].item)]_vars

\* add_log_line has invoked two log callbacks with a line that is in log_lines
C25_Witness ==
    /\ Len(log_callbacks) = 2
    /\ Len(notified) = 2
    /\ \A k \in 1..2 :
          /\ notified[k].callbacks = "log"
          /\ notified[k].stored
          /\ Contains(log_lines, notified[k].item)

\* C26: for every job id that is not the tracked one, also while no job has
\* been tracked yet, get_job_progress_info replies active False and nothing
\* else: no progress, no log lines, no captured output
C26_InactiveForOtherIds ==
    \A job_id \in Ids(MaxTracked + 1) :
        active_job_id # Some(job_id) =>
            /\ get_job_progress_info(job_id) = [active |-> FALSE]
            /\ DOMAIN get_job_progress_info(job_id) = {"active"}

\* a job is tracked and has logged a line and reported progress; the reply for
\* its id is active, the reply for another id is not
C26_Witness ==
    /\ active_job_id = Some(1)
    /\ log_lines # <<>>
    /\ current_progress # DefaultProgressInfo
    /\ get_job_progress_info(1).active
    /\ get_job_progress_info(1).recent_logs = log_lines
    /\ ~get_job_progress_info(2).active

\* the reads that view makes in the present state: the progress and the log
\* view ask the progress tracker only when the queue manager shows an active job
ReadsOf(view) ==
    IF view = "queue" THEN {"queue:get_queue_status"}
    ELSE IF view = "progress"
    THEN {"progress:get_queue_status"} \cup
         (IF get_queue_status.active_job # None /\ "progress:get_queue_status" \notin last_call'.raising
          THEN {"progress:get_job_progress_info"} ELSE {})
    ELSE {"logs:get_queue_status"} \cup
         (IF get_queue_status.active_job # None /\ "logs:get_queue_status" \notin last_call'.raising
          THEN {"logs:get_job_progress_info"} ELSE {})

\* what the three views show when their reads return
ViewsShown ==
    <<View("queue", get_queue_status),
      IF get_queue_status.active_job = None THEN View("progress", [active |-> FALSE])
      ELSE View("progress", get_job_progress_info(get_queue_status.active_job[1].job_id)),
      IF get_queue_status.active_job # None
         /\ active_job_id = Some(get_queue_status.active_job[1].job_id)
      THEN View("logs", get_recent_logs(Some(20)))
      ELSE NoLogs>>

C28_RichLineParsed ==
    last_call.op = "parse_tqdm_line" =>
        LET w == last_call.written
            seconds == (IF w.elapsed.h = None THEN 0 ELSE w.elapsed.h[1] * 3600)
                       + w.elapsed.m * 60 + w.elapsed.s
        IN  /\ last_call.ret # None
            /\ last_call.ret[1].percentage = w.percentage
            /\ last_call.ret[1].current_step = w.steps[1]
            /\ last_call.ret[1].total_steps = w.steps[2]
            /\ RatEq(last_call.ret[1].elapsed_time, Rat(seconds, 1))
            /\ (last_call.line = TEXT_TQDM =>
                   /\ last_call.ret[1].percentage = 45
                   /\ last_call.ret[1].current_step = 12
                   /\ last_call.ret[1].total_steps = 30
                   /\ RatEq(last_call.ret[1].elapsed_time, Rat(12, 1)))

\* the line of the example has been parsed
C28_Witness ==
    /\ last_call.op = "parse_tqdm_line"
    /\ last_call.line = TEXT_TQDM
    /\ last_call.ret # None
    /\ last_call.ret[1].percentage = 45
    /\ last_call.ret[1].total_steps = 30

\* how many times x is in the list s
Count(s, x) == Cardinality({i \in 1..Len(s) : s[i] = x})

\* the lines stamped with the time t
StampedAll(t, lines) == [i \in 1..Len(lines) |-> Stamped(t, lines[i])]

\* C29: a write of lines without "%", "it/s", "step" or "epoch" to the captured
\* standard output leaves current_progress, captured_output and the jobs as
\* they are and appends each line to log_lines once, in order; a write of an
\* empty text or of blanks changes none of them
C29_PlainLinesLogged ==
    [][lines_written' = lines_written + 1 =>
          /\ last_call'.text \in {TEXT_LOG, TEXT_TWO} =>
                 /\ current_progress' = current_progress
                 /\ captured_output' = captured_output
                 /\ jobs' = jobs
                 /\ log_lines' = log_lines \o StampedAll(now, LinesOf(last_call'.text))
                 /\ \A i \in 1..Len(LinesOf(last_call'.text)) :
                        Count(log_lines', Stamped(now, LinesOf(last_call'.text)[i]))
                            = Count(log_lines, Stamped(now, LinesOf(last_call'.text)[i])) + 1
          /\ last_call'.text \in {TEXT_BLANK, TEXT_NONE} =>
                 /\ current_progress' = current_progress
                 /\ captured_output' = captured_output
                 /\ jobs' = jobs
                 /\ log_lines' = log_lines]_vars

\* "Loading checkpoint..." has been written after a progress line: it is the
\* one line of the log and the progress is the one of the progress line
C29_Witness ==
    /\ last_call.op = "write"
    /\ last_call.text = TEXT_LOG
    /\ log_lines = <<Stamped(now, LINE_LOG)>>
    /\ current_progress.percentage = 45
    /\ Len(captured_output) = 1

\* C30: every line that is not empty and is written to the captured standard
\* output either becomes current_progress, with a new entry of
\* captured_output, or is appended to log_lines, and not both; so does a line
\* with the word "step" that neither pattern matches
C30_EveryLineRecorded ==
    [][(lines_written' = lines_written + 1 /\ Len(LinesOf(last_call'.text)) = 1) =>
          LET line == LinesOf(last_call'.text)[1]
              progress == /\ current_progress'.description = line
                          /\ captured_output' = Append(captured_output, Stamped(now, line))
              logged == log_lines' = Append(log_lines, Stamped(now, line))
          IN  /\ progress \/ logged
              /\ progress => log_lines' = log_lines
              /\ logged => captured_output' = captured_output]_vars

\* the number written in a line of SpecBare
WrittenNumber(w) ==
    IF w.frac = None THEN Rat(w.whole, 1)
    ELSE Rat(w.whole * Pow10(Len(Dec(w.frac[1]))) + w.frac[1], Pow10(Len(Dec(w.frac[1]))))

\* C31: for a line that the rich pattern does not match and that has a decimal
\* number directly before "%", parse_tqdm_line returns a ProgressInfo whose
\* percentage is the number written (45.5 for "45.5%") and whose step counts
\* are 0, whose eta is None and whose elapsed time is 0
C31_BarePercentage ==
    last_call.op = "parse_bare" =>
        /\ last_call.ret # None
        /\ RatEq(Rat(last_call.ret[1].percentage, 1), WrittenNumber(last_call.written))
        /\ last_call.ret[1].current_step = 0
        /\ last_call.ret[1].total_steps = 0
        /\ last_call.ret[1].eta = None
        /\ RatEq(last_call.ret[1].elapsed_time, Rat(0, 1))

\* C32: while a job is tracked the captured output never holds more entries
\* than a fixed bound, here the bound of the log buffer, however many
\* progress updates there are
C32_CapturedOutputBounded ==
    active_job_id # None => Len(captured_output) <= MAX_LINES

\* the jobs of SpecTracking other than job_id
OtherJobs(job_id) == (1..MaxTrackings) \ {job_id}

\* C33: a reply of get_job_progress_info(job_id) with active true holds no log
\* line, no captured progress line and no progress value that was captured
\* while another job was tracked, also when the call runs at the same time as
\* start_job_tracking(job_id)
C33_NoStaleInfo ==
    (last_call.op = "get_job_progress_info" /\ last_call.ret.active) =>
        \A other \in OtherJobs(last_call.job_id[1]) :
            /\ last_call.ret.progress.percentage # other
            /\ ~Contains(last_call.ret.recent_logs, Stamped(now, LineNo(other)))
            /\ ~Contains(last_call.ret.tqdm_output, Stamped(now, Str(other) \o <<"%">>))

\* C34: for a job that was tracked, has been completed or failed and is not
\* the active job, get_job_progress_info reports active false
C34_RetiredJobInactive ==
    \A i \in 1..Len(job_history) :
        (/\ active_job # Some(job_history[i].job_id)
         /\ \E k \in 1..Len(captures) : captures[k].job_id = job_history[i].job_id)
            => ~get_job_progress_info(job_history[i].job_id).active

\* C35: queue_order holds only ids of jobs of the live store with status
\* "queued", and each such id once
C35_QueueOrderIsQueuedJobs ==
    /\ \A i \in 1..Len(queue_order) :
           /\ queue_order[i] \in DOMAIN jobs
           /\ jobs[queue_order[i]].status = "queued"
    /\ \A job_id \in DOMAIN jobs :
           jobs[job_id].status = "queued" =>
               Cardinality({i \in 1..Len(queue_order) : queue_order[i] = job_id}) = 1

\* C36: active_job is set exactly when a job of the live store has status
\* "processing", and then it names such a job
C36_ActiveIffProcessing ==
    /\ (active_job # None) <=> (\E job_id \in DOMAIN jobs : jobs[job_id].status = "processing")
    /\ active_job # None =>
           /\ active_job[1] \in DOMAIN jobs
           /\ jobs[active_job[1]].status = "processing"

\* the callbacks of the tqdm capture that forward to the queue manager
QueueCallbacks == SelectSeq(tqdm_callbacks, LAMBDA c : c.fn = "update_queue_progress")

\* no call of start_job_tracking is under way
TrackingSettled == \A t \in Calls("start_job_tracking") : threads[t].pc = "done"

\* C37: once the tracking of a job has begun and no start_job_tracking is
\* under way, one callback forwards to the queue manager; and a line taken in
\* by the captures changes the record of no job other than the tracked one
C37_OnlyTrackedJobUpdated ==
    /\ []((TaskRuns /\ TrackingSettled) => Len(QueueCallbacks) = 1)
    /\ [][(TrackingSettled /\ lines_written' = lines_written + 1) =>
             \A job_id \in DOMAIN jobs :
                 Some(job_id) # active_job_id => jobs'[job_id] = jobs[job_id]]_vars

\* C38: when every capture block that was entered has ended, in whatever
\* order, sys.stdout and sys.stderr are the streams of before the first
\* block: no CaptureStream is installed
C38_StreamsRestored ==
    (captures # <<>> /\ \A k \in 1..Len(captures) : Closed(captures[k])) =>
        /\ sys_stdout.wrappers = <<>>
        /\ sys_stderr.wrappers = <<>>

\* C39: every call a thread has begun, of the queue manager, of
\* update_progress, of add_log_line or of get_job_progress_info, returns in
\* the end: no thread waits for a lock for ever
C39_EveryCallReturns ==
    \A t \in 1..MaxThreads :
        (Len(threads) >= t) ~> (Len(threads) >= t /\ threads[t].pc = "done")

\* update_progress holds the lock of the tqdm capture and waits for the lock
\* of the queue manager, which another thread holds, while
\* get_job_progress_info waits for the lock of the tqdm capture
C39_Witness ==
    \E w, r \in 1..Len(threads) :
        /\ In(w, "update_progress", "callback")
        /\ threads[w].args[1] <= Len(tqdm_callbacks)
        /\ capture_locks.tqdm = Some(w)
        /\ lock # None
        /\ lock # Some(w)
        /\ In(r, "get_job_progress_info", "take")

\* C40: while a call of generate runs the generation task, its job is in the
\* live store with status "processing", also when the caller gave the job_id
C40_TaskOnlyForStartedJob ==
    \A g \in 1..Len(generate_calls) :
        generate_calls[g].pc = "task" =>
            /\ generate_calls[g].job_id \in DOMAIN jobs
            /\ jobs[generate_calls[g].job_id].status = "processing"

====
